---- MODULE Spec2Model ----
(***************************************************************************)
(* Announce delivery queue of the conversational-agent relay:              *)
(* per-destination queue state (ANNOUNCE_QUEUES), admission control        *)
(* (enqueueAnnounce), trailing debounce (waitForQueueDebounce) and the     *)
(* serialized drain task per key (scheduleAnnounceDrain); the announce     *)
(* flow (runSubagentAnnounceFlow); the internal hooks of onboarding        *)
(* (setupInternalHooks) and of start-up (loadInternalHooks).               *)
(*                                                                         *)
(* Text is a sequence of one-character strings.  An optional value is the  *)
(* empty sequence (undefined) or a one-element sequence.                   *)
(***************************************************************************)
EXTENDS Integers, Sequences, FiniteSets, TLC

\* ------------------------------------------------------------------ bounds
\* number of enqueueAnnounce calls explored in one behaviour
MaxAnnounce == 3
\* last instant of the clock (Date.now()) explored
MaxTime == 2
\* queue-state objects and drain tasks representable per key (the code is
\* expected to need one of each)
MaxObjects == 2
MaxDrains == 2
\* announces explored by the admission, collect and debounce specifications
MaxAnnounceCap == 4
MaxAnnounceCollect == 3
MaxAnnounceDebounce == 3
\* clock steps of 10 ms explored by the debounce specification
MaxTicksDebounce == 10
\* invocations of the announce flow and clock ticks explored by the flow
\* specifications
MaxFlows == 2
MaxTicksFlow == 1
\* announces and clock ticks explored with rejected enqueues
MaxAnnounceReject == 3
MaxTicksReject == 4
\* announces explored with a capacity that is lowered mid-life
MaxAnnounceTrim == 5
\* announces explored by the destination specification
MaxAnnounceCross == 3
\* announces explored against a transport that always fails
MaxAnnounceFailing == 3
\* hooks in a hook report, discovered hook entries and legacy handlers explored
MaxReport == 2
MaxHooks == 2
MaxLegacy == 1
MaxDirEntries == 1
MaxCliHooks == 2
MaxCommands == 2
\* announces explored by the two-key specification
MaxAnnounceKeys == 3
\* announces explored by the settings specification
MaxAnnounceSettings == 2
\* announces explored by the termination specification
MaxAnnounceLive == 4
\* announces and clock steps of 1000 ms explored by the lifecycle specification
MaxAnnounceLifecycle == 4
MaxTicksLifecycle == 2

\* ------------------------------------------------------- program constants
DefaultDebounceMs == 1000
DefaultCap == 20
SummaryLimit == 160

\* ------------------------------------------------------------------- text
Max(a, b) == IF a >= b THEN a ELSE b

\* the single character U+2026 appended by elideText
Ellipsis == "U+2026"

\* the characters String.prototype.trim and the class \s of a regular
\* expression take as white space (WhiteSpace and LineTerminator of
\* ECMAScript); those without an escape of their own are written U+xxxx
WhiteSpaceChars ==
  {" ", "\t", "\n", "\r", "\f", "U+000B", "U+00A0", "U+1680", "U+2000", "U+2001",
   "U+2002", "U+2003", "U+2004", "U+2005", "U+2006", "U+2007", "U+2008", "U+2009",
   "U+200A", "U+2028", "U+2029", "U+202F", "U+205F", "U+3000", "U+FEFF"}

IsSpace(c) == c \in WhiteSpaceChars

RECURSIVE TrimStart(_)
TrimStart(s) ==
  IF s = <<>> THEN <<>>
  ELSE IF IsSpace(Head(s)) THEN TrimStart(Tail(s)) ELSE s

RECURSIVE TrimEnd(_)
TrimEnd(s) ==
  IF s = <<>> THEN <<>>
  ELSE IF IsSpace(s[Len(s)]) THEN TrimEnd(SubSeq(s, 1, Len(s) - 1)) ELSE s

Trim(s) == TrimEnd(TrimStart(s))

\* text.replace(/\s+/g, " "): every maximal run of whitespace becomes one space
RECURSIVE CollapseWs(_)
CollapseWs(s) ==
  IF s = <<>> THEN <<>>
  ELSE IF IsSpace(Head(s))
       THEN <<" ">> \o CollapseWs(TrimStart(s))
       ELSE <<Head(s)>> \o CollapseWs(Tail(s))

ElideText(text, limit) ==
  IF Len(text) <= limit THEN text
  ELSE TrimEnd(SubSeq(text, 1, Max(0, limit - 1))) \o <<Ellipsis>>

\* item.summaryLine?.trim() || item.prompt.trim(), whitespace collapsed, elided
BuildQueueSummaryLine(item) ==
  LET fromSummary == IF item.summaryLine = <<>> THEN <<>> ELSE Trim(item.summaryLine[1])
      base == IF fromSummary # <<>> THEN fromSummary ELSE Trim(item.prompt)
      cleaned == Trim(CollapseWs(base))
  IN ElideText(cleaned, SummaryLimit)

\* ------------------------------------------------------------- queue state
\* type QueueDropPolicy, as the three cases enqueueAnnounce distinguishes
DropPolicies == {"old", "new", "summarize"}

\* AnnounceQueueState created by getAnnounceQueue for a key that has no entry
CreatedQueue(settings) ==
  [ items |-> <<>>,
    draining |-> FALSE,
    lastEnqueuedAt |-> 0,
    mode |-> settings.mode,
    debounceMs |-> IF settings.debounceMs # <<>>
                   THEN Max(0, settings.debounceMs[1]) ELSE DefaultDebounceMs,
    cap |-> IF settings.cap # <<>> /\ settings.cap[1] > 0
            THEN settings.cap[1] ELSE DefaultCap,
    dropPolicy |-> IF settings.dropPolicy # <<>>
                   THEN settings.dropPolicy[1] ELSE "summarize",
    droppedCount |-> 0,
    summaryLines |-> <<>> ]

\* a merge that stores whatever capacity is supplied
MergedQueueAnyCap(existing, settings) ==
  [ existing EXCEPT
      !.mode = settings.mode,
      !.debounceMs = IF settings.debounceMs # <<>>
                     THEN Max(0, settings.debounceMs[1]) ELSE existing.debounceMs,
      !.cap = IF settings.cap # <<>> THEN settings.cap[1] ELSE existing.cap,
      !.dropPolicy = IF settings.dropPolicy # <<>>
                     THEN settings.dropPolicy[1] ELSE existing.dropPolicy ]

\* the settings merge getAnnounceQueue applies to an existing entry
MergedQueue(existing, settings) ==
  [ existing EXCEPT
      !.mode = settings.mode,
      !.debounceMs = IF settings.debounceMs # <<>>
                     THEN Max(0, settings.debounceMs[1]) ELSE existing.debounceMs,
      !.cap = IF settings.cap # <<>> /\ settings.cap[1] > 0
              THEN settings.cap[1] ELSE existing.cap,
      !.dropPolicy = IF settings.dropPolicy # <<>>
                     THEN settings.dropPolicy[1] ELSE existing.dropPolicy ]

\* getAnnounceQueue: existing is the optional entry found under the key
GetAnnounceQueue(existing, settings) ==
  IF existing # <<>> THEN MergedQueue(existing[1], settings)
  ELSE CreatedQueue(settings)

\* the last n elements of s (the while/shift loop that trims summaryLines)
LastN(s, n) == IF Len(s) <= n THEN s ELSE SubSeq(s, Len(s) - n + 1, Len(s))

SummariesOf(dropped) == [i \in 1..Len(dropped) |-> BuildQueueSummaryLine(dropped[i])]

\* a full queue under policy "new" that takes the item all the same
RejectNewButAppend(queue, item) ==
  [queue |-> [queue EXCEPT !.items = Append(@, item)], accepted |-> TRUE, dropped |-> <<>>]

\* what the cap branch of enqueueAnnounce does when policy "new" meets a full queue
RejectNew(queue, item) ==
  [queue |-> queue, accepted |-> FALSE, dropped |-> <<>>]

\* eviction that removes the newest queued items instead of the oldest
EvictNewest(queue, item) ==
  LET dropCount == Len(queue.items) - queue.cap + 1
      kept == SubSeq(queue.items, 1, Len(queue.items) - dropCount)
      dropped == SubSeq(queue.items, Len(queue.items) - dropCount + 1, Len(queue.items))
      counted == IF queue.dropPolicy = "summarize"
                 THEN [queue EXCEPT
                         !.droppedCount = queue.droppedCount + Len(dropped),
                         !.summaryLines =
                            LastN(queue.summaryLines \o SummariesOf(dropped), queue.cap)]
                 ELSE queue
  IN [queue |-> [counted EXCEPT !.items = kept \o <<item>>],
      accepted |-> TRUE, dropped |-> dropped]

\* eviction that always removes one item, whatever the excess over the cap
EvictOne(queue, item) ==
  LET dropped == SubSeq(queue.items, 1, 1)
      counted == IF queue.dropPolicy = "summarize"
                 THEN [queue EXCEPT
                         !.droppedCount = queue.droppedCount + 1,
                         !.summaryLines =
                            LastN(queue.summaryLines \o SummariesOf(dropped), queue.cap)]
                 ELSE queue
  IN [queue |-> [counted EXCEPT !.items = Tail(queue.items) \o <<item>>],
      accepted |-> TRUE, dropped |-> dropped]

\* eviction that never trims the summary list
EvictOldestUntrimmed(queue, item) ==
  LET dropCount == Len(queue.items) - queue.cap + 1
      dropped == SubSeq(queue.items, 1, dropCount)
      kept == SubSeq(queue.items, dropCount + 1, Len(queue.items))
      counted == IF queue.dropPolicy = "summarize"
                 THEN [queue EXCEPT
                         !.droppedCount = queue.droppedCount + Len(dropped),
                         !.summaryLines = queue.summaryLines \o SummariesOf(dropped)]
                 ELSE queue
  IN [queue |-> [counted EXCEPT !.items = kept \o <<item>>],
      accepted |-> TRUE, dropped |-> dropped]

\* eviction that records the summaries without counting the items
EvictOldestUncounted(queue, item) ==
  LET dropCount == Len(queue.items) - queue.cap + 1
      dropped == SubSeq(queue.items, 1, dropCount)
      kept == SubSeq(queue.items, dropCount + 1, Len(queue.items))
      counted == IF queue.dropPolicy = "summarize"
                 THEN [queue EXCEPT
                         !.summaryLines =
                            LastN(queue.summaryLines \o SummariesOf(dropped), queue.cap)]
                 ELSE queue
  IN [queue |-> [counted EXCEPT !.items = kept \o <<item>>],
      accepted |-> TRUE, dropped |-> dropped]

\* the eviction branch of enqueueAnnounce (policies other than "new")
EvictOldest(queue, item) ==
  LET dropCount == Len(queue.items) - queue.cap + 1
      dropped == SubSeq(queue.items, 1, dropCount)
      kept == SubSeq(queue.items, dropCount + 1, Len(queue.items))
      counted == IF queue.dropPolicy = "summarize"
                 THEN [queue EXCEPT
                         !.droppedCount = queue.droppedCount + Len(dropped),
                         !.summaryLines =
                            LastN(queue.summaryLines \o SummariesOf(dropped), queue.cap)]
                 ELSE queue
  IN [queue |-> [counted EXCEPT !.items = kept \o <<item>>],
      accepted |-> TRUE, dropped |-> dropped]

\* enqueueAnnounce on the optional entry found under the key, at time t:
\* the resulting entry, the returned boolean, and the items spliced out
EnqueueAnnounce(existing, item, settings, t) ==
  LET queue == [GetAnnounceQueue(existing, settings) EXCEPT !.lastEnqueuedAt = t]
  IN IF queue.cap > 0 /\ Len(queue.items) >= queue.cap
     THEN IF queue.dropPolicy = "new" THEN RejectNew(queue, item)
          ELSE EvictOldest(queue, item)
     ELSE [queue |-> [queue EXCEPT !.items = Append(queue.items, item)],
           accepted |-> TRUE, dropped |-> <<>>]

\* --------------------------------------------------------------- payloads
\* A message handed to the transport is a sequence of blocks (the parts that
\* buildCollectPrompt joins with blank lines); a block keeps what its text is
\* built from.
MarkerBlock == [tag |-> "marker", n |-> 0, lines |-> <<>>, text |-> <<>>]
\* "[Queue overflow] Dropped n announce(s) due to cap." + "Summary:" + "- line"...
OverflowBlock(n, lines) == [tag |-> "overflow", n |-> n, lines |-> lines, text |-> <<>>]
\* `---\nQueued #${idx}\n${prompt}`.trim()
QueuedBlock(idx, prompt) ==
  [tag |-> "queued", n |-> idx, lines |-> <<>>, text |-> TrimEnd(prompt)]
\* an item's prompt sent verbatim
RawBlock(prompt) == [tag |-> "raw", n |-> 0, lines |-> <<>>, text |-> prompt]

\* a notice that reports the count and leaves the summary list in place
BuildSummaryPromptKeepsLines(queue) ==
  IF queue.dropPolicy # "summarize" \/ queue.droppedCount <= 0
  THEN [queue |-> queue, summary |-> <<>>]
  ELSE [queue |-> [queue EXCEPT !.droppedCount = 0],
        summary |-> <<OverflowBlock(queue.droppedCount, queue.summaryLines)>>]

\* buildSummaryPrompt: the optional notice and the queue with its drop debt reset
BuildSummaryPrompt(queue) ==
  IF queue.dropPolicy # "summarize" \/ queue.droppedCount <= 0
  THEN [queue |-> queue, summary |-> <<>>]
  ELSE [queue |-> [queue EXCEPT !.droppedCount = 0, !.summaryLines = <<>>],
        summary |-> <<OverflowBlock(queue.droppedCount, queue.summaryLines)>>]

\* a combined prompt whose blocks are numbered from 0
BuildCollectPromptZeroBased(items, summary) ==
  <<MarkerBlock>> \o summary
     \o [i \in 1..Len(items) |-> QueuedBlock(i - 1, items[i].prompt)]

\* buildCollectPrompt: marker, optional overflow notice, one block per item
BuildCollectPrompt(items, summary) ==
  <<MarkerBlock>> \o summary \o [i \in 1..Len(items) |-> QueuedBlock(i, items[i].prompt)]

\* [channel, to, accountId || ""].join("|")
DestKey(item) ==
  item.originatingChannel \o "|" \o item.originatingTo \o "|" \o item.originatingAccountId

\* hasCrossChannelItems; "" stands for an absent (falsy) metadata field
HasCrossChannelItems(items) ==
  LET unkeyed(i) == /\ items[i].originatingChannel = ""
                    /\ items[i].originatingTo = ""
                    /\ items[i].originatingAccountId = ""
      partial(i) == /\ ~unkeyed(i)
                    /\ (items[i].originatingChannel = "" \/ items[i].originatingTo = "")
      idx == 1..Len(items)
      keys == {DestKey(items[i]) : i \in {j \in idx : ~unkeyed(j)}}
  IN IF \E i \in idx : partial(i) THEN TRUE
     ELSE IF keys = {} THEN FALSE
     ELSE IF \E i \in idx : unkeyed(i) THEN TRUE
     ELSE Cardinality(keys) > 1

\* ------------------------------------------------------------ drain step
\* The body of one iteration of the drain loop, after the debounce wait:
\* the queue as the iteration leaves it, the sticky flag, and the optional
\* item handed to sendAnnounce (absent: the iteration ends in `break`).  The
\* prompt of a sent item is the message, a sequence of blocks.
\* a pop that takes the newest queued item instead of the oldest
PopNewest(queue, force) ==
  IF queue.items = <<>>
  THEN [queue |-> queue, force |-> force, send |-> <<>>]
  ELSE [queue |-> [queue EXCEPT !.items = SubSeq(@, 1, Len(@) - 1)],
        force |-> force,
        send |-> <<[queue.items[Len(queue.items)] EXCEPT !.prompt = <<RawBlock(@)>>]>>]

\* a send of the oldest item that leaves it in the sequence
PeekOne(queue, force) ==
  IF queue.items = <<>>
  THEN [queue |-> queue, force |-> force, send |-> <<>>]
  ELSE [queue |-> queue,
        force |-> force,
        send |-> <<[Head(queue.items) EXCEPT !.prompt = <<RawBlock(@)>>]>>]

\* const next = queue.items.shift(); if (!next) break; await sendAnnounce(next)
PopOne(queue, force) ==
  IF queue.items = <<>>
  THEN [queue |-> queue, force |-> force, send |-> <<>>]
  ELSE [queue |-> [queue EXCEPT !.items = Tail(queue.items)],
        force |-> force,
        send |-> <<[Head(queue.items) EXCEPT !.prompt = <<RawBlock(@)>>]>>]

\* collect mode, not forced, no cross-channel items: one combined delivery
CollectAll(queue) ==
  LET items == queue.items
      sp == BuildSummaryPrompt([queue EXCEPT !.items = <<>>])
  IN IF items = <<>>
     THEN [queue |-> sp.queue, force |-> FALSE, send |-> <<>>]
     ELSE [queue |-> sp.queue, force |-> FALSE,
           send |-> <<[items[Len(items)] EXCEPT
                         !.prompt = BuildCollectPrompt(items, sp.summary)]>>]

\* non-collect modes with an overflow notice pending: the notice is sent as
\* the prompt of the item shifted from the head
SendSummary(queue, summary, force) ==
  IF queue.items = <<>>
  THEN [queue |-> queue, force |-> force, send |-> <<>>]
  ELSE [queue |-> [queue EXCEPT !.items = Tail(queue.items)],
        force |-> force,
        send |-> <<[Head(queue.items) EXCEPT !.prompt = summary]>>]

DrainBody(queue, force) ==
  IF queue.mode = "collect"
  THEN IF force THEN PopOne(queue, TRUE)
       ELSE IF HasCrossChannelItems(queue.items) THEN PopOne(queue, TRUE)
       ELSE CollectAll(queue)
  ELSE LET sp == BuildSummaryPrompt(queue)
       IN IF sp.summary # <<>> THEN SendSummary(sp.queue, sp.summary, force)
          ELSE PopOne(queue, force)

\* ---------------------------------------------------------------- debounce
\* one pass of the loop of waitForQueueDebounce: the delay still to wait
\* (0: return) for the debounce value the call captured
WaitRemaining(debounceMs, lastEnqueuedAt, t) ==
  IF t - lastEnqueuedAt >= debounceMs THEN 0
  ELSE debounceMs - (t - lastEnqueuedAt)

\* waitForQueueDebounce up to its first suspension
WaitForQueueDebounce(queue, t) ==
  LET debounceMs == Max(0, queue.debounceMs)
  IN IF debounceMs <= 0 THEN 0
     ELSE WaitRemaining(debounceMs, queue.lastEnqueuedAt, t)

\* ------------------------------------------------------------------ state
Keys == {"k1", "k2"}

VARIABLES
  store,    \* ANNOUNCE_QUEUES: key -> reference of its queue object (0: no entry)
  heap,     \* the queue objects: key -> reference -> optional AnnounceQueueState
  tasks,    \* the drain tasks started by scheduleAnnounceDrain: key -> slot -> optional task
  calls,    \* the sendAnnounce calls made for each key, oldest first
  now,      \* Date.now()
  nCalls,   \* number of enqueueAnnounce calls made so far
  ret,      \* key and returned boolean of the latest enqueueAnnounce call
  hist,     \* per key: prompts accepted by enqueueAnnounce, prompts it evicted
  flows,    \* the runSubagentAnnounceFlow invocations so far, oldest first
  event,    \* what the latest invocation found: session, settings, injection
  wizard,   \* the run of setupInternalHooks
  loader,   \* the run of loadInternalHooks
  hookEntries,  \* the run of loadHookEntries
  hooksCli  \* the configuration file and the runs of enableHook and disableHook

queueVars == <<store, heap, tasks, calls, now, nCalls, ret, hist, flows, event>>
vars == <<queueVars, wizard, loader, hookEntries, hooksCli>>

\* the part of the state the queue functions work on
World == [store |-> store, heap |-> heap, tasks |-> tasks, calls |-> calls]

\* the queue object a key maps to, and the one a task holds
Entry(w, k) == IF w.store[k] = 0 THEN <<>> ELSE w.heap[k][w.store[k]]
Q(k) == heap[k][store[k]][1]
Present(k) == store[k] # 0
Task(k, t) == tasks[k][t][1]
Live(k, t) == tasks[k][t] # <<>>
LiveTasks(k) == {t \in 1..MaxDrains : Live(k, t)}
QueueOf(w, k, t) == w.heap[k][w.tasks[k][t][1].obj][1]

\* an object is kept while the store or a task references it
Collect(w, k) ==
  [w EXCEPT !.heap[k] =
     [o \in 1..MaxObjects |->
        IF w.store[k] = o \/ \E t \in 1..MaxDrains :
                                w.tasks[k][t] # <<>> /\ w.tasks[k][t][1].obj = o
        THEN w.heap[k][o] ELSE <<>>]]

SetQueue(w, k, t, queue) == [w EXCEPT !.heap[k][w.tasks[k][t][1].obj] = <<queue>>]

\* scheduleAnnounceDrain without the test of the draining flag
CanStartDrainIgnoringFlag(w, k) == w.store[k] # 0

\* the guard of scheduleAnnounceDrain: an entry exists and is not draining
CanStartDrain(w, k) == w.store[k] # 0 /\ ~w.heap[k][w.store[k]][1].draining

FreeSlots(w, k) == {t \in 1..MaxDrains : w.tasks[k][t] = <<>>}
Lowest(S) == CHOOSE x \in S : \A y \in S : x <= y

NewTask(obj, sid) ==
  [pc |-> "micro", obj |-> obj, force |-> FALSE, debounceMs |-> 0, wakeAt |-> 0,
   call |-> 0, sid |-> sid]

RECURSIVE ScheduleAnnounceDrain(_, _, _), DrainLoop(_, _, _), DrainFinally(_, _, _)

\* the head of the while loop of the drain task in slot t, run up to the
\* task's next suspension: the debounce timer, or the resumption that follows
\* an immediate return of waitForQueueDebounce
DrainLoop(w, k, t) ==
  LET queue == QueueOf(w, k, t)
      delay == WaitForQueueDebounce(queue, now)
  IN IF queue.items # <<>> \/ queue.droppedCount > 0
     THEN IF delay = 0
          THEN [w EXCEPT !.tasks[k][t][1].pc = "micro"]
          ELSE [w EXCEPT !.tasks[k][t][1].pc = "timer",
                         !.tasks[k][t][1].debounceMs = Max(0, queue.debounceMs),
                         !.tasks[k][t][1].wakeAt = now + delay]
     ELSE DrainFinally(w, k, t)

\* a finally block that empties the whole store instead of deleting its key
DrainFinallyClearsStore(w, k, t) ==
  LET queue == QueueOf(w, k, t)
      sid == w.tasks[k][t][1].sid
      cleared == [SetQueue(w, k, t, [queue EXCEPT !.draining = FALSE])
                    EXCEPT !.tasks[k][t] = <<>>]
  IN IF queue.items = <<>> /\ queue.droppedCount = 0
     THEN Collect([cleared EXCEPT !.store = [j \in Keys |-> 0]], k)
     ELSE Collect(ScheduleAnnounceDrain(cleared, k, 1 - sid), k)

\* a finally block that deletes the entry whatever it still holds
DrainFinallyAlwaysDeletes(w, k, t) ==
  LET queue == QueueOf(w, k, t)
      cleared == [SetQueue(w, k, t, [queue EXCEPT !.draining = FALSE])
                    EXCEPT !.tasks[k][t] = <<>>]
  IN Collect([cleared EXCEPT !.store[k] = 0], k)

\* a finally block that leaves the drained entry in the store
DrainFinallyKeepsEntry(w, k, t) ==
  LET queue == QueueOf(w, k, t)
      sid == w.tasks[k][t][1].sid
      cleared == [SetQueue(w, k, t, [queue EXCEPT !.draining = FALSE])
                    EXCEPT !.tasks[k][t] = <<>>]
  IN IF queue.items = <<>> /\ queue.droppedCount = 0
     THEN Collect(cleared, k)
     ELSE Collect(ScheduleAnnounceDrain(cleared, k, 1 - sid), k)

\* the finally block: clear the flag, then delete the entry or reschedule
DrainFinally(w, k, t) ==
  LET queue == QueueOf(w, k, t)
      sid == w.tasks[k][t][1].sid
      cleared == [SetQueue(w, k, t, [queue EXCEPT !.draining = FALSE])
                    EXCEPT !.tasks[k][t] = <<>>]
  IN IF queue.items = <<>> /\ queue.droppedCount = 0
     THEN Collect([cleared EXCEPT !.store[k] = 0], k)
     ELSE Collect(ScheduleAnnounceDrain(cleared, k, 1 - sid), k)

\* scheduleAnnounceDrain(key); sid tells successive drain sessions of a key apart
ScheduleAnnounceDrain(w, k, sid) ==
  IF ~CanStartDrain(w, k) \/ FreeSlots(w, k) = {} THEN w
  ELSE LET t == Lowest(FreeSlots(w, k))
           obj == w.store[k]
           started == [w EXCEPT !.heap[k][obj][1].draining = TRUE,
                                !.tasks[k][t] = <<NewTask(obj, sid)>>]
       IN DrainLoop(started, k, t)

\* one loop iteration after the wait: deliver (suspending in the transport
\* call) or break into the finally block
DrainIterate(w, k, t) ==
  LET step == DrainBody(QueueOf(w, k, t), w.tasks[k][t][1].force)
      popped == SetQueue(w, k, t, step.queue)
  IN IF step.send = <<>>
     THEN DrainFinally([popped EXCEPT !.tasks[k][t][1].force = step.force], k, t)
     ELSE [popped EXCEPT
             !.tasks[k][t][1].force = step.force,
             !.tasks[k][t][1].pc = "send",
             !.tasks[k][t][1].call = Len(w.calls[k]) + 1,
             !.calls[k] = Append(w.calls[k],
                                 [item |-> step.send[1], status |-> "pending"])]

\* ----------------------------------------------------------------- inputs
DigitChars == <<"0", "1", "2", "3", "4", "5", "6", "7", "8", "9">>

RECURSIVE Num(_)
Num(n) == IF n < 10 THEN <<DigitChars[n + 1]>>
          ELSE Num(n \div 10) \o <<DigitChars[(n % 10) + 1]>>

\* the trigger message of the n-th announce: distinct texts, some with
\* surrounding and repeated whitespace
PromptOf(n) ==
  CASE n % 3 = 1 -> <<"m">> \o Num(n)
    [] n % 3 = 2 -> <<"m">> \o Num(n) \o <<" ">>
    [] OTHER     -> <<" ", "m">> \o Num(n) \o <<"\r", "\n", "x">>

\* its optional summary line: present, absent, or blank
SummaryLineOf(n) ==
  CASE n % 4 = 0 -> << <<" ">> >>
    [] n % 2 = 1 -> << <<"t">> \o Num(n) \o <<" ">> >>
    [] OTHER     -> <<>>

\* origin metadata (lastChannel, lastTo, lastAccountId) of the session entry
DestNone == [channel |-> "", to |-> "", accountId |-> ""]
DestA == [channel |-> "wa", to |-> "+1", accountId |-> ""]
DestB == [channel |-> "wa", to |-> "+2", accountId |-> ""]
DestA2 == [channel |-> "wa", to |-> "+1", accountId |-> "work"]
DestPartial == [channel |-> "wa", to |-> "", accountId |-> ""]
DestAccountOnly == [channel |-> "", to |-> "", accountId |-> "work"]
\* two destinations whose recipient and account id hold the separator "|"
DestBarInTo == [channel |-> "wa", to |-> "+1|w", accountId |-> "x"]
DestBarInAccount == [channel |-> "wa", to |-> "+1", accountId |-> "w|x"]

\* the item maybeQueueSubagentAnnounce builds for the n-th announce
NewItem(n, k, dest) ==
  [ prompt |-> PromptOf(n),
    summaryLine |-> SummaryLineOf(n),
    enqueuedAt |-> now,
    sessionKey |-> k,
    originatingChannel |-> dest.channel,
    originatingTo |-> dest.to,
    originatingAccountId |-> dest.accountId ]

\* queue settings as resolveQueueSettings may return them
Setting(mode, debounceMs, cap, dropPolicy) ==
  [mode |-> mode, debounceMs |-> debounceMs, cap |-> cap, dropPolicy |-> dropPolicy]

\* ---------------------------------------------------------------- actions
\* Promise continuations run before the next timer or I/O callback: while a
\* drain task or an invocation of the flow waits to resume, no timer fires and
\* no call is answered.  Callers of the queue may run in the same turn, and
\* the clock advances whatever is pending.
MicroDrains(ts) ==
  {kt \in Keys \X (1..MaxDrains) : ts[kt[1]][kt[2]] # <<>> /\ ts[kt[1]][kt[2]][1].pc = "micro"}

MicroPending ==
  \/ MicroDrains(tasks) # {}
  \/ \E i \in 1..Len(flows) : flows[i].suspended

\* continuations run in the order in which they were queued: a drain resumes
\* before the invocations that were suspended after it, and after those that
\* were suspended before it
DrainIsNext(k, t) ==
  \A i \in 1..Len(flows) : flows[i].suspended => <<k, t>> \in flows[i].ahead

Resumed(k, t) == [i \in 1..Len(flows) |-> [flows[i] EXCEPT !.ahead = @ \ {<<k, t>>}]]

Prompts(items) == {items[i].prompt : i \in 1..Len(items)}

Install(w) ==
  /\ store' = w.store
  /\ heap' = w.heap
  /\ tasks' = w.tasks
  /\ calls' = w.calls

\* the object enqueueAnnounce works on: the entry of the key, or a new object
TargetObj(w, k) ==
  IF w.store[k] # 0 THEN w.store[k]
  ELSE Lowest({o \in 1..MaxObjects : w.heap[k][o] = <<>>})

\* enqueueAnnounce(key, item, settings) followed by scheduleAnnounceDrain(key)
QueueItem(k, item, settings, limit) ==
  /\ nCalls < limit
  /\ \E o \in 1..MaxObjects : store[k] # 0 \/ heap[k][o] = <<>>
  /\ LET r == EnqueueAnnounce(Entry(World, k), item, settings, now)
         obj == TargetObj(World, k)
         enqueued == [World EXCEPT !.store[k] = obj, !.heap[k][obj] = <<r.queue>>]
     IN /\ Install(ScheduleAnnounceDrain(enqueued, k, 0))
        /\ ret' = [key |-> k, accepted |-> r.accepted]
        /\ hist' = [hist EXCEPT
                      ![k].accepted = IF r.accepted THEN @ \cup {PromptOf(nCalls + 1)} ELSE @,
                      ![k].evicted = @ \cup Prompts(r.dropped)]
  /\ nCalls' = nCalls + 1
  /\ UNCHANGED now

QueueAnnounce(k, dest, settings, limit) ==
  QueueItem(k, NewItem(nCalls + 1, k, dest), settings, limit)

\* the queued path of maybeQueueSubagentAnnounce, taken on its own
Announce(k, dest, settings, limit) ==
  /\ QueueAnnounce(k, dest, settings, limit)
  /\ UNCHANGED <<flows, event, wizard, loader, hookEntries, hooksCli>>

\* the same, keeping the settings resolveQueueSettings returned for the call
AnnounceWith(k, dest, settings, limit) ==
  /\ QueueAnnounce(k, dest, settings, limit)
  /\ event' = settings
  /\ UNCHANGED <<flows, wizard, loader, hookEntries, hooksCli>>

\* the setTimeout of waitForQueueDebounce fires: re-check, wait again or go on
TimerFire(k, t) ==
  /\ ~MicroPending
  /\ Live(k, t) /\ Task(k, t).pc = "timer" /\ Task(k, t).wakeAt <= now
  /\ LET left == WaitRemaining(Task(k, t).debounceMs, QueueOf(World, k, t).lastEnqueuedAt, now)
     IN IF left = 0 THEN Install(DrainIterate(World, k, t))
        ELSE Install([World EXCEPT !.tasks[k][t][1].wakeAt = now + left])
  /\ UNCHANGED <<now, nCalls, ret, hist, flows, event, wizard, loader, hookEntries, hooksCli>>

\* the drain resumes after waitForQueueDebounce returned without waiting
Resume(k, t) ==
  /\ Live(k, t) /\ Task(k, t).pc = "micro"
  /\ DrainIsNext(k, t)
  /\ Install(DrainIterate(World, k, t))
  /\ flows' = Resumed(k, t)
  /\ UNCHANGED <<now, nCalls, ret, hist, event, wizard, loader, hookEntries, hooksCli>>

\* the transport call of sendAnnounce resolves: next loop iteration
SendOk(k, t) ==
  /\ ~MicroPending
  /\ Live(k, t) /\ Task(k, t).pc = "send"
  /\ Install(DrainLoop([World EXCEPT !.calls[k][Task(k, t).call].status = "ok"], k, t))
  /\ UNCHANGED <<now, nCalls, ret, hist, flows, event, wizard, loader, hookEntries, hooksCli>>

\* a failed transport call after which the loop goes on to its next iteration
SendFailKeepsLooping(k, t) ==
  /\ ~MicroPending
  /\ Live(k, t) /\ Task(k, t).pc = "send"
  /\ Install(DrainLoop([World EXCEPT !.calls[k][Task(k, t).call].status = "fail"], k, t))
  /\ UNCHANGED <<now, nCalls, ret, hist, flows, event, wizard, loader, hookEntries, hooksCli>>

\* the transport call throws: catch, log, finally
SendFail(k, t) ==
  /\ ~MicroPending
  /\ Live(k, t) /\ Task(k, t).pc = "send"
  /\ Install(DrainFinally([World EXCEPT !.calls[k][Task(k, t).call].status = "fail"], k, t))
  /\ UNCHANGED <<now, nCalls, ret, hist, flows, event, wizard, loader, hookEntries, hooksCli>>

\* the clock advances by d, at most `ticks` times; a timer that is due may
\* fire late
Tick(d, ticks) ==
  /\ now + d <= d * ticks
  /\ now' = now + d
  /\ UNCHANGED <<store, heap, tasks, calls, nCalls, ret, hist, flows, event, wizard, loader, hookEntries, hooksCli>>

\* ------------------------------------------------------------ announce flow
\* the modes resolveQueueSettings may return, as maybeQueueSubagentAnnounce
\* tells them apart; "immediate" stands for every mode it does not name
FlowModes == {"immediate", "followup", "collect", "steer", "steer-backlog", "interrupt"}

\* the requester's session: no session id, a session without a running turn,
\* a session with a running turn
Sessions == {"none", "idle", "active"}

IsEmbeddedPiRunActive(session) == session = "active"

\* steering injection: succeeds only into a running turn that accepts it
QueueEmbeddedPiMessage(session, accepts) == session = "active" /\ accepts

\* a variant that queues for a session without a running turn
MaybeQueueOutcomeIgnoringActivity(in) ==
  IF in.session = "none" THEN "none"
  ELSE IF in.mode \in {"steer", "steer-backlog"}
          /\ QueueEmbeddedPiMessage(in.session, in.accepts) THEN "steered"
  ELSE IF in.mode \in {"followup", "collect", "steer-backlog", "interrupt", "steer"}
       THEN "queued"
  ELSE "none"

\* a variant that leaves interrupt mode out of the queued modes
MaybeQueueOutcomeWithoutInterrupt(in) ==
  IF in.session = "none" THEN "none"
  ELSE IF in.mode \in {"steer", "steer-backlog"}
          /\ QueueEmbeddedPiMessage(in.session, in.accepts) THEN "steered"
  ELSE IF IsEmbeddedPiRunActive(in.session)
          /\ in.mode \in {"followup", "collect", "steer-backlog", "steer"}
       THEN "queued"
  ELSE "none"

\* a variant that queues in the steer modes without trying the injection
MaybeQueueOutcomeNeverSteers(in) ==
  IF in.session = "none" THEN "none"
  ELSE IF IsEmbeddedPiRunActive(in.session)
          /\ in.mode \in {"followup", "collect", "steer-backlog", "interrupt", "steer"}
       THEN "queued"
  ELSE "none"

\* the value maybeQueueSubagentAnnounce returns
MaybeQueueOutcome(in) ==
  IF in.session = "none" THEN "none"
  ELSE IF in.mode \in {"steer", "steer-backlog"}
          /\ QueueEmbeddedPiMessage(in.session, in.accepts) THEN "steered"
  ELSE IF IsEmbeddedPiRunActive(in.session)
          /\ in.mode \in {"followup", "collect", "steer-backlog", "interrupt", "steer"}
       THEN "queued"
  ELSE "none"

\* params.label || params.task || "background task"
BackgroundTask ==
  <<"b", "a", "c", "k", "g", "r", "o", "u", "n", "d", " ", "t", "a", "s", "k">>

TaskLabel(label, task) ==
  IF label # <<>> THEN label ELSE IF task # <<>> THEN task ELSE BackgroundTask

\* the task of the n-th invocation: a text, a blank text or the empty text
TaskOf(n) == IF SummaryLineOf(n) = <<>> THEN <<>> ELSE SummaryLineOf(n)[1]

\* the item maybeQueueSubagentAnnounce builds for an invocation of the flow:
\* its summary line is the task label
FlowItem(n, k, dest, label) ==
  [NewItem(n, k, dest) EXCEPT !.summaryLine = <<TaskLabel(label, TaskOf(n))>>]

\* an invocation of runSubagentAnnounceFlow: the value maybeQueueSubagentAnnounce
\* returned to it ("": not reached), the number of the enqueueAnnounce call made
\* for it (0: none), whether it is suspended in its await of
\* maybeQueueSubagentAnnounce and the drains that resume before it, its direct
\* callGateway call and the message of that call, the variable didAnnounce,
\* and the value returned ("pending" until it returns)
Flow(k, queued, suspended, ahead) ==
  [key |-> k, queued |-> queued,
   announce |-> IF queued = "queued" THEN nCalls + 1 ELSE 0,
   suspended |-> suspended, ahead |-> ahead,
   direct |-> "none", message |-> <<>>, didAnnounce |-> FALSE,
   result |-> "pending"]

\* what the finally block of runSubagentAnnounceFlow works with: the label
\* parameter (the empty text stands for an absent or empty one, both falsy)
\* and the cleanup parameter, with the state of the sessions.patch and
\* sessions.delete calls.  An invocation described without these has no label
\* and keeps the child session.
FollowUpOf(in) ==
  IF "label" \in DOMAIN in
  THEN [label |-> in.label, cleanup |-> in.cleanup, patch |-> "none", delete |-> "none"]
  ELSE [label |-> <<>>, cleanup |-> "keep", patch |-> "none", delete |-> "none"]

\* return didAnnounce
Return(f) == [f EXCEPT !.result = IF f.didAnnounce THEN "true" ELSE "false"]

\* the finally block after the label patch: the sessions.delete call when
\* cleanup is "delete", else the return
AfterPatch(f) ==
  IF f.cleanup = "delete" THEN [f EXCEPT !.delete = "pending"] ELSE Return(f)

\* the finally block up to its first await: the sessions.patch call when the
\* label is truthy
FinallyBlock(f) ==
  IF f.label # <<>> THEN [f EXCEPT !.patch = "pending"] ELSE AfterPatch(f)

\* runSubagentAnnounceFlow(k) from the point where reading the child's reply
\* and statistics has ended, up to its await of maybeQueueSubagentAnnounce.
\* `in` is what the invocation finds: whether that reading went through
\* (prelude), the requester's session, its queue mode and drop policy, and
\* whether a running turn accepts an injection.  maybeQueueSubagentAnnounce
\* runs to its return (injection, or enqueueAnnounce and scheduleAnnounceDrain,
\* or neither) and the invocation is suspended; one whose reading failed goes
\* into its finally block.
FlowStart(k, dest, in, debounceMs, cap, limit) ==
  /\ Len(flows) < limit
  /\ event' = [mode |-> in.mode, session |-> in.session, accepts |-> in.accepts,
               dropPolicy |-> in.dropPolicy, built |-> in.prelude]
  /\ UNCHANGED <<wizard, loader, hookEntries, hooksCli>>
  /\ LET outcome == MaybeQueueOutcome(in)
     IN IF ~in.prelude
        THEN /\ UNCHANGED <<store, heap, tasks, calls, now, nCalls, ret, hist>>
             /\ flows' = Append(flows, FinallyBlock(Flow(k, "", FALSE, {})
                                                      @@ FollowUpOf(in)))
        ELSE IF outcome = "queued"
        THEN /\ QueueItem(k, FlowItem(nCalls + 1, k, dest, FollowUpOf(in).label),
                          Setting(in.mode, debounceMs, cap, <<in.dropPolicy>>), limit)
             /\ flows' = Append(flows, Flow(k, "queued", TRUE, MicroDrains(tasks'))
                                         @@ FollowUpOf(in))
        ELSE /\ UNCHANGED <<store, heap, tasks, calls, now, nCalls, ret, hist>>
             /\ flows' = Append(flows, Flow(k, outcome, TRUE, MicroDrains(tasks'))
                                         @@ FollowUpOf(in))

\* the i-th invocation resumes from its await of maybeQueueSubagentAnnounce:
\* steered or queued, it sets didAnnounce and returns through the finally
\* block; otherwise it makes the direct callGateway call
FlowResume(i) ==
  /\ i \in 1..Len(flows) /\ flows[i].suspended
  /\ flows[i].ahead = {}
  /\ \A j \in 1..(i - 1) : ~flows[j].suspended
  /\ flows' = [flows EXCEPT ![i] =
                 IF @.queued \in {"steered", "queued"}
                 THEN FinallyBlock([@ EXCEPT !.suspended = FALSE, !.didAnnounce = TRUE])
                 ELSE [@ EXCEPT !.suspended = FALSE, !.direct = "pending",
                                !.message = <<RawBlock(PromptOf(i))>>]]
  /\ UNCHANGED <<store, heap, tasks, calls, now, nCalls, ret, hist, event, wizard, loader, hookEntries, hooksCli>>

\* the direct callGateway call of the i-th invocation resolves: didAnnounce,
\* then the finally block
DirectOk(i) ==
  /\ ~MicroPending
  /\ i \in 1..Len(flows) /\ flows[i].direct = "pending"
  /\ flows' = [flows EXCEPT ![i] = FinallyBlock([@ EXCEPT !.direct = "ok",
                                                           !.didAnnounce = TRUE])]
  /\ UNCHANGED <<store, heap, tasks, calls, now, nCalls, ret, hist, event, wizard, loader, hookEntries, hooksCli>>

\* a direct call whose failure reaches the caller of the flow
DirectFailPropagates(i) ==
  /\ ~MicroPending
  /\ i \in 1..Len(flows) /\ flows[i].direct = "pending"
  /\ flows' = [flows EXCEPT ![i] = [@ EXCEPT !.direct = "fail", !.result = "throw"]]
  /\ UNCHANGED <<store, heap, tasks, calls, now, nCalls, ret, hist, event, wizard, loader, hookEntries, hooksCli>>

\* the direct call throws: caught and logged, then the finally block
DirectFail(i) ==
  /\ ~MicroPending
  /\ i \in 1..Len(flows) /\ flows[i].direct = "pending"
  /\ flows' = [flows EXCEPT ![i] = FinallyBlock([@ EXCEPT !.direct = "fail"])]
  /\ UNCHANGED <<store, heap, tasks, calls, now, nCalls, ret, hist, event, wizard, loader, hookEntries, hooksCli>>

\* the sessions.patch call of the i-th invocation is answered, with success
\* or not: the failure is swallowed and the finally block goes on
PatchOk(i) ==
  /\ ~MicroPending
  /\ i \in 1..Len(flows) /\ flows[i].patch = "pending"
  /\ flows' = [flows EXCEPT ![i] = AfterPatch([@ EXCEPT !.patch = "ok"])]
  /\ UNCHANGED <<store, heap, tasks, calls, now, nCalls, ret, hist, event, wizard, loader, hookEntries, hooksCli>>

PatchFail(i) ==
  /\ ~MicroPending
  /\ i \in 1..Len(flows) /\ flows[i].patch = "pending"
  /\ flows' = [flows EXCEPT ![i] = AfterPatch([@ EXCEPT !.patch = "fail"])]
  /\ UNCHANGED <<store, heap, tasks, calls, now, nCalls, ret, hist, event, wizard, loader, hookEntries, hooksCli>>

\* the sessions.delete call is answered, with success or not: the invocation
\* returns didAnnounce
DeleteOk(i) ==
  /\ ~MicroPending
  /\ i \in 1..Len(flows) /\ flows[i].delete = "pending"
  /\ flows' = [flows EXCEPT ![i] = Return([@ EXCEPT !.delete = "ok"])]
  /\ UNCHANGED <<store, heap, tasks, calls, now, nCalls, ret, hist, event, wizard, loader, hookEntries, hooksCli>>

DeleteFail(i) ==
  /\ ~MicroPending
  /\ i \in 1..Len(flows) /\ flows[i].delete = "pending"
  /\ flows' = [flows EXCEPT ![i] = Return([@ EXCEPT !.delete = "fail"])]
  /\ UNCHANGED <<store, heap, tasks, calls, now, nCalls, ret, hist, event, wizard, loader, hookEntries, hooksCli>>

\* --------------------------------------------------------- hook onboarding
\* A configuration object is a function from its field names to their
\* values; a field the object lacks is outside the domain.
EmptyObject == [k \in {} |-> 0]

\* { ...a, ...b }
Spread(a, b) ==
  [k \in (DOMAIN a) \cup (DOMAIN b) |-> IF k \in DOMAIN b THEN b[k] ELSE a[k]]

SkipOption == "__skip__"
RecommendedName == "session-memory"

\* report.hooks.filter((h) => h.eligible && h.name === "session-memory")
RecommendedHooks(report) ==
  SelectSeq(report, LAMBDA h : h.eligible /\ h.name = RecommendedName)

\* the values of the options offered by the multiselect
OptionValues(recommended) ==
  <<SkipOption>> \o [i \in 1..Len(recommended) |-> recommended[i].name]

\* toEnable.filter((name) => name !== "__skip__")
SelectedHooks(toEnable) == SelectSeq(toEnable, LAMBDA name : name # SkipOption)

\* { ...cfg.hooks?.internal?.entries }
InternalEntries(cfg) ==
  IF "hooks" \in DOMAIN cfg
  THEN IF "internal" \in DOMAIN cfg.hooks
       THEN IF "entries" \in DOMAIN cfg.hooks.internal
            THEN cfg.hooks.internal.entries ELSE EmptyObject
       ELSE EmptyObject
  ELSE EmptyObject

\* for (const name of selected) entries[name] = { enabled: true }
RECURSIVE EnableEntries(_, _)
EnableEntries(entries, selected) ==
  IF selected = <<>> THEN entries
  ELSE EnableEntries(Spread(entries, Head(selected) :> [enabled |-> TRUE]), Tail(selected))

\* a result that keeps only the selected entries
EnabledConfigFreshEntries(cfg, selected) ==
  Spread(cfg,
         [hooks |-> Spread(IF "hooks" \in DOMAIN cfg THEN cfg.hooks ELSE EmptyObject,
                           [internal |-> [enabled |-> TRUE,
                                          entries |-> EnableEntries(EmptyObject, selected)]])])

\* the configuration `next` built when hooks were selected
EnabledConfig(cfg, selected) ==
  Spread(cfg,
         [hooks |-> Spread(IF "hooks" \in DOMAIN cfg THEN cfg.hooks ELSE EmptyObject,
                           [internal |-> [enabled |-> TRUE,
                                          entries |-> EnableEntries(InternalEntries(cfg),
                                                                    selected)]])])

\* a wizard that enables the recommended hooks when only skip was chosen
AfterSelectionIgnoringSkip(w, toEnable) ==
  [w EXCEPT !.pc = "enabled", !.notes = @ + 1,
            !.next = <<EnabledConfig(w.cfg, SelectSeq(w.options,
                                                      LAMBDA name : name # SkipOption))>>]

\* setupInternalHooks from the answer of the multiselect to its return, or
\* to the note that tells which hooks were enabled, shown with `next` built
AfterSelection(w, toEnable) ==
  IF SelectedHooks(toEnable) = <<>>
  THEN [w EXCEPT !.pc = "done", !.result = <<w.cfg>>]
  ELSE [w EXCEPT !.pc = "enabled", !.notes = @ + 1,
                 !.next = <<EnabledConfig(w.cfg, SelectedHooks(toEnable))>>]

\* setupInternalHooks from the acknowledgement of its first note, with the
\* hook report that buildWorkspaceHookStatus gives then, to the note that
\* says no hook is eligible or to the multiselect
AfterIntro(w, report) ==
  LET recommended == RecommendedHooks(report)
  IN IF recommended = <<>>
     THEN [w EXCEPT !.pc = "nohooks", !.report = report, !.read = TRUE,
                    !.notes = @ + 1]
     ELSE [w EXCEPT !.pc = "select", !.report = report, !.read = TRUE,
                    !.options = OptionValues(recommended)]

\* a run of setupInternalHooks(cfg, runtime, prompter): where it stands, the
\* hook report once it was read, the notes shown, the options of the
\* multiselect once it was shown, the answer given, the configuration `next`
\* once built, and the returned configuration
NewWizard(cfg) ==
  [pc |-> "start", cfg |-> cfg, report |-> <<>>, read |-> FALSE, notes |-> 0,
   options |-> <<>>, answer |-> <<>>, next |-> <<>>, result |-> <<>>]

NoWizard == [pc |-> "none"]

\* ------------------------------------------------------------- hook loader
\* A discovered hook entry: whether shouldIncludeHook accepts it, whether its
\* config says enabled: false, what importing its handler module gives
\* ("throws", "notfunction": the export is missing or no function, "function")
\* and the events of its metadata.  A legacy handler: its event and what the
\* import gives.
HookEntry(included, disabled, import, events) ==
  [included |-> included, disabled |-> disabled, import |-> import, events |-> events]

LegacyHandler(ev, import) == [event |-> ev, import |-> import]

\* hookEntries.filter((entry) => shouldIncludeHook({ entry, config: cfg })),
\* each entry with its position in the discovery result
EligibleEntries(entries) ==
  SelectSeq([i \in 1..Len(entries) |-> [id |-> i, entry |-> entries[i]]],
            LAMBDA e : e.entry.included)

\* registerInternalHook(event, handler) for every event listed
Registrations(id, events) == [i \in 1..Len(events) |-> <<events[i], id>>]

\* a loader that counts every hook it looked at
LoadHookCountingAll(l, e) ==
  IF e.entry.disabled \/ e.entry.import # "function" \/ e.entry.events = <<>>
  THEN [l EXCEPT !.loadedCount = @ + 1]
  ELSE [l EXCEPT !.registered = @ \o Registrations(<<"hook", e.id>>, e.entry.events),
                 !.loadedCount = @ + 1]

\* one iteration of the loop over the eligible entries
LoadHook(l, e) ==
  IF e.entry.disabled \/ e.entry.import # "function" \/ e.entry.events = <<>>
  THEN l
  ELSE [l EXCEPT !.registered = @ \o Registrations(<<"hook", e.id>>, e.entry.events),
                 !.loadedCount = @ + 1]

\* one iteration of the loop over cfg.hooks.internal.handlers
LoadLegacy(l, i) ==
  IF l.handlers[i].import # "function" THEN l
  ELSE [l EXCEPT !.registered = Append(@, <<l.handlers[i].event, <<"legacy", i>>>>),
                 !.loadedCount = @ + 1]

\* a run of loadInternalHooks(cfg, workspaceDir): cfg.hooks?.internal?.enabled,
\* whether loadWorkspaceHookEntries throws, what it finds, the legacy handlers
\* of cfg, the loop the run is in and its position, the handlers registered,
\* the counter and the returned value
NewLoader(enabled, discovery, entries, handlers) ==
  [pc |-> "start", enabled |-> enabled, discovery |-> discovery, entries |-> entries,
   handlers |-> handlers, eligible |-> <<>>, next |-> 1, registered |-> <<>>,
   loadedCount |-> 0, result |-> <<>>]

NoLoader == [pc |-> "none"]

\* ---------------------------------------------------------- hook discovery
\* A subdirectory of a hooks directory: its name, the name given in the
\* frontmatter of its HOOK.md ("" when it gives none) and whether one of the
\* handler files exists.
DirEntry(dir, name, handler) == [dir |-> dir, name |-> name, handler |-> handler]

\* loadHooksFromDir({ dir, source }): a hook for every subdirectory that has a
\* handler file, named by the frontmatter or else by the subdirectory; a
\* missing directory is an empty listing
LoadHooksFromDir(listing, root, source) ==
  LET found == SelectSeq(listing, LAMBDA e : e.handler)
  IN [i \in 1..Len(found) |->
        [name |-> IF found[i].name # "" THEN found[i].name ELSE found[i].dir,
         source |-> source,
         baseDir |-> <<root, found[i].dir>>]]

\* a map that keeps the hook it already has under a name
MapSetKeepFirst(merged, hook) ==
  IF \E i \in 1..Len(merged) : merged[i].name = hook.name
  THEN merged
  ELSE Append(merged, hook)

\* merged.set(hook.name, hook) on a Map, kept as the sequence of its values in
\* insertion order: a name already present keeps its place and gets the hook
MapSet(merged, hook) ==
  IF \E i \in 1..Len(merged) : merged[i].name = hook.name
  THEN [i \in 1..Len(merged) |-> IF merged[i].name = hook.name THEN hook ELSE merged[i]]
  ELSE Append(merged, hook)

\* for (const hook of hooks) merged.set(hook.name, hook)
RECURSIVE SetAll(_, _)
SetAll(merged, hooks) ==
  IF hooks = <<>> THEN merged ELSE SetAll(MapSet(merged, Head(hooks)), Tail(hooks))

\* loadHookEntries on the listings of the extra, bundled, managed and workspace
\* directories: the values of the merged map, each wrapped in an entry
LoadHookEntries(dirs) ==
  LET extraHooks == LoadHooksFromDir(dirs.extra, "extra", "clawdbot-workspace")
      bundledHooks == LoadHooksFromDir(dirs.bundled, "bundled", "clawdbot-bundled")
      managedHooks == LoadHooksFromDir(dirs.managed, "managed", "clawdbot-managed")
      workspaceHooks == LoadHooksFromDir(dirs.workspace, "workspace", "clawdbot-workspace")
      merged == SetAll(SetAll(SetAll(SetAll(<<>>, extraHooks), bundledHooks),
                              managedHooks), workspaceHooks)
  IN [i \in 1..Len(merged) |-> [hook |-> merged[i]]]

\* a run of loadHookEntries: the directory listings it reads and its result
NewMerge(dirs) == [pc |-> "start", dirs |-> dirs, result |-> <<>>]

NoMerge == [pc |-> "none"]

\* ------------------------------------------------------------- hooks cli
\* A hook entry as the commands see it: the name of the hook, the hookKey of
\* its metadata (<<>> when it has none), whether its requirements are met or
\* it is marked always, and whether shouldIncludeHook accepts it.
CliEntry(name, hookKey, ready, included) ==
  [name |-> name, hookKey |-> hookKey, ready |-> ready, included |-> included]

\* entry.clawdbot?.hookKey ?? entry.hook.name
ResolveHookKey(entry) == IF entry.hookKey # <<>> THEN entry.hookKey[1] ELSE entry.name

\* resolveHookConfig(config, key): the entry of hooks.internal.entries under
\* the key; the empty object stands for undefined
ResolveHookConfig(config, key) ==
  IF key \in DOMAIN InternalEntries(config) THEN InternalEntries(config)[key]
  ELSE EmptyObject

\* hookConfig?.enabled === false
EnabledIsFalse(hookConfig) == "enabled" \in DOMAIN hookConfig /\ hookConfig.enabled = FALSE

\* buildHookStatus(entry, config), the fields the commands and the claims use
BuildHookStatus(entry, config) ==
  LET hookKey == ResolveHookKey(entry)
      disabled == EnabledIsFalse(ResolveHookConfig(config, hookKey))
  IN [name |-> entry.name, hookKey |-> hookKey, disabled |-> disabled,
      eligible |-> ~disabled /\ entry.ready]

\* buildWorkspaceHookStatus(workspaceDir, { config }).hooks
BuildWorkspaceHookStatus(entries, config) ==
  [i \in 1..Len(entries) |-> BuildHookStatus(entries[i], config)]

\* report.hooks.find((h) => h.name === hookName): <<>> stands for undefined
FindHook(report, hookName) ==
  LET found == SelectSeq(report, LAMBDA h : h.name = hookName)
  IN IF found = <<>> THEN <<>> ELSE <<found[1]>>

\* config.hooks and config.hooks?.internal, spread into the next configuration
HooksObject(config) == IF "hooks" \in DOMAIN config THEN config.hooks ELSE EmptyObject

InternalObject(config) ==
  IF "internal" \in DOMAIN HooksObject(config) THEN HooksObject(config).internal
  ELSE EmptyObject

\* entries[hookName] = { ...entries[hookName], enabled }
WithEntryEnabled(entries, hookName, enabled) ==
  Spread(entries,
         hookName :> Spread(IF hookName \in DOMAIN entries THEN entries[hookName]
                            ELSE EmptyObject,
                            [enabled |-> enabled]))

\* nextConfig of enableHook
EnabledHookConfig(config, hookName) ==
  Spread(config,
         [hooks |-> Spread(HooksObject(config),
                           [internal |-> Spread(InternalObject(config),
                                                [enabled |-> TRUE,
                                                 entries |-> WithEntryEnabled(
                                                   InternalEntries(config), hookName, TRUE)])])])

\* a nextConfig that keeps only the entry of the hook
DisabledHookConfigFreshEntries(config, hookName) ==
  Spread(config,
         [hooks |-> Spread(HooksObject(config),
                           [internal |-> Spread(InternalObject(config),
                                                [entries |-> WithEntryEnabled(
                                                   EmptyObject, hookName, FALSE)])])])

\* nextConfig of disableHook
DisabledHookConfig(config, hookName) ==
  Spread(config,
         [hooks |-> Spread(HooksObject(config),
                           [internal |-> Spread(InternalObject(config),
                                                [entries |-> WithEntryEnabled(
                                                   InternalEntries(config), hookName, FALSE)])])])

\* a command: its name, its argument, the configuration it read, how far it
\* is ("writing": it waits for writeConfigFile; "ok"; or the error thrown),
\* and the nextConfig it gave to writeConfigFile, if any
Command(command, hookName, config, outcome, nextConfig) ==
  [command |-> command, hookName |-> hookName, config |-> config,
   outcome |-> outcome, nextConfig |-> nextConfig]

Started(c, cmd) == [c EXCEPT !.runs = @ + 1, !.cmds = Append(@, cmd)]

\* enableHook(hookName) from loadConfig to the throw or to the call of
\* writeConfigFile, on the configuration file c.config
EnableHook(c, hookName) ==
  LET config == c.config
      hook == FindHook(BuildWorkspaceHookStatus(c.entries, config), hookName)
  IN IF hook = <<>>
     THEN Started(c, Command("enable", hookName, config, "not found", <<>>))
     ELSE IF ~hook[1].eligible
     THEN Started(c, Command("enable", hookName, config, "not eligible", <<>>))
     ELSE Started(c, Command("enable", hookName, config, "writing",
                             <<EnabledHookConfig(config, hookName)>>))

\* disableHook(hookName) from loadConfig to the throw or to the call of
\* writeConfigFile, on the configuration file c.config
DisableHook(c, hookName) ==
  LET config == c.config
      hook == FindHook(BuildWorkspaceHookStatus(c.entries, config), hookName)
  IN IF hook = <<>>
     THEN Started(c, Command("disable", hookName, config, "not found", <<>>))
     ELSE Started(c, Command("disable", hookName, config, "writing",
                             <<DisabledHookConfig(config, hookName)>>))

\* writeConfigFile(nextConfig): the configuration file becomes nextConfig
WriteConfigFile(c, nextConfig) == [c EXCEPT !.config = nextConfig]

\* the hook entries of the workspace, the configuration file, the commands
\* started, each with how far it is, and the configuration that the latest
\* run of loadInternalHooks was given, if any
NewCli(entries, config) ==
  [pc |-> "ready", entries |-> entries, config |-> config, runs |-> 0,
   cmds |-> <<>>, loaded |-> <<>>]

NoCli == [pc |-> "none"]

NoEvent == [mode |-> "", session |-> "", accepts |-> FALSE, dropPolicy |-> "", built |-> FALSE]

InitQueue ==
  /\ store = [k \in Keys |-> 0]
  /\ heap = [k \in Keys |-> [o \in 1..MaxObjects |-> <<>>]]
  /\ tasks = [k \in Keys |-> [t \in 1..MaxDrains |-> <<>>]]
  /\ calls = [k \in Keys |-> <<>>]
  /\ now = 0
  /\ nCalls = 0
  /\ ret = [key |-> "", accepted |-> FALSE]
  /\ hist = [k \in Keys |-> [accepted |-> {}, evicted |-> {}]]
  /\ flows = <<>>
  /\ event = NoEvent

Init ==
  /\ InitQueue
  /\ wizard = NoWizard
  /\ loader = NoLoader
  /\ hookEntries = NoMerge
  /\ hooksCli = NoCli

\* Drain engine: a key announced to in followup and collect mode and for two
\* recipients, a second key, cap 2 with summarizing eviction, debounce 1.
DrainInputs ==
  {[key |-> "k1", dest |-> DestA, settings |-> Setting("followup", <<1>>, <<2>>, <<"summarize">>)],
   [key |-> "k1", dest |-> DestA, settings |-> Setting("collect", <<1>>, <<2>>, <<"summarize">>)],
   [key |-> "k1", dest |-> DestB, settings |-> Setting("collect", <<1>>, <<2>>, <<"summarize">>)],
   [key |-> "k2", dest |-> DestA, settings |-> Setting("followup", <<1>>, <<2>>, <<"summarize">>)]}

Next ==
  \/ \E in \in DrainInputs : Announce(in.key, in.dest, in.settings, MaxAnnounce)
  \/ \E k \in Keys, t \in 1..MaxDrains : TimerFire(k, t)
  \/ \E k \in Keys, t \in 1..MaxDrains : Resume(k, t)
  \/ \E k \in Keys, t \in 1..MaxDrains : SendOk(k, t)
  \/ \E k \in Keys, t \in 1..MaxDrains : SendFail(k, t)
  \/ Tick(1, MaxTime)

Spec == Init /\ [][Next]_vars

\* Admission control: one key, caps 1 and 2 under the three drop policies,
\* followup mode, debounce 1 (announces pile up while the drain waits).
CapSettings ==
  {Setting("followup", <<1>>, <<cap>>, <<policy>>) : cap \in {1, 2}, policy \in DropPolicies}

NextCap ==
  \/ \E settings \in CapSettings : Announce("k1", DestA, settings, MaxAnnounceCap)
  \/ \E t \in 1..MaxDrains : TimerFire("k1", t)
  \/ \E t \in 1..MaxDrains : Resume("k1", t)
  \/ \E t \in 1..MaxDrains : SendOk("k1", t)
  \/ \E t \in 1..MaxDrains : SendFail("k1", t)
  \/ Tick(1, MaxTime)

SpecCap == Init /\ [][NextCap]_vars

\* Collect mode: one key, no debounce, destinations that differ in recipient
\* or only in account id, or that lack metadata or part of it.
CollectInputs ==
  {[dest |-> d, settings |-> Setting("collect", <<0>>, <<3>>, <<"summarize">>)] :
      d \in {DestA, DestB, DestA2, DestNone, DestPartial}}

NextCollect ==
  \/ \E in \in CollectInputs : Announce("k1", in.dest, in.settings, MaxAnnounceCollect)
  \/ \E t \in 1..MaxDrains : Resume("k1", t)
  \/ \E t \in 1..MaxDrains : SendOk("k1", t)
  \/ \E t \in 1..MaxDrains : SendFail("k1", t)

SpecCollect == Init /\ [][NextCollect]_vars

\* Debounce: one key in collect mode, debounce 50 or 20, a clock in steps of 10.
DebounceSettings ==
  {Setting("collect", <<d>>, <<3>>, <<"summarize">>) : d \in {20, 50}}

NextDebounce ==
  \/ \E settings \in DebounceSettings :
       Announce("k1", DestA, settings, MaxAnnounceDebounce)
  \/ \E t \in 1..MaxDrains : TimerFire("k1", t)
  \/ \E t \in 1..MaxDrains : Resume("k1", t)
  \/ \E t \in 1..MaxDrains : SendOk("k1", t)
  \/ \E t \in 1..MaxDrains : SendFail("k1", t)
  \/ Tick(10, MaxTicksDebounce)

SpecDebounce == Init /\ [][NextDebounce]_vars

\* Lifecycle: one key whose entry is created, drained, deleted and created
\* again, by calls that set every setting (cap 1, no debounce, policy "old")
\* and by calls that set only the mode, a clock in steps of the default
\* debounce.
LifecycleSettings ==
  {Setting("followup", <<0>>, <<1>>, <<"old">>), Setting("collect", <<>>, <<>>, <<>>)}

NextLifecycle ==
  \/ \E settings \in LifecycleSettings :
       Announce("k1", DestA, settings, MaxAnnounceLifecycle)
  \/ \E t \in 1..MaxDrains : TimerFire("k1", t)
  \/ \E t \in 1..MaxDrains : Resume("k1", t)
  \/ \E t \in 1..MaxDrains : SendOk("k1", t)
  \/ \E t \in 1..MaxDrains : SendFail("k1", t)
  \/ Tick(DefaultDebounceMs, MaxTicksLifecycle)

SpecLifecycle == Init /\ [][NextLifecycle]_vars

\* Termination: one key, no debounce, cap 1, followup and collect mode, a
\* drop policy that changes between calls.  A drain task that can resume does
\* so (promise continuations always run), and a transport call in flight
\* resolves or throws (callGateway is given a timeout).
LiveSettings ==
  {Setting(mode, <<0>>, <<1>>, <<policy>>) :
      mode \in {"followup", "collect"}, policy \in {"summarize", "old"}}

NextLive ==
  \/ \E settings \in LiveSettings : Announce("k1", DestA, settings, MaxAnnounceLive)
  \/ \E t \in 1..MaxDrains : Resume("k1", t)
  \/ \E t \in 1..MaxDrains : SendOk("k1", t)
  \/ \E t \in 1..MaxDrains : SendFail("k1", t)

FairLive ==
  \A t \in 1..MaxDrains :
    /\ WF_vars(Resume("k1", t))
    /\ WF_vars(SendOk("k1", t) \/ SendFail("k1", t))

SpecLive == Init /\ [][NextLive]_vars /\ FairLive

\* Announce flow: one key, cap 1, debounce 1; every mode and session state,
\* injection accepted or not, reject-new and summarizing drop policy, and a
\* flow that fails before it has a message.  Inputs that differ only in a
\* field the flow does not read are listed once.
FlowInputs ==
  {in \in [mode : FlowModes, session : Sessions, accepts : BOOLEAN,
           dropPolicy : {"new", "summarize"}, prelude : BOOLEAN] :
     /\ in.accepts => (in.mode \in {"steer", "steer-backlog"} /\ in.session # "none")
     /\ in.dropPolicy = "new" => (in.mode \in {"followup", "steer"} /\ in.session = "active")
     /\ ~in.prelude => (in.mode = "followup" /\ in.session = "active"
                          /\ in.dropPolicy = "summarize")}

NextFlow ==
  \/ \E in \in FlowInputs, debounceMs \in {<<0>>, <<1>>} :
       FlowStart("k1", DestA, in, debounceMs, <<1>>, MaxFlows)
  \/ \E i \in 1..MaxFlows : FlowResume(i)
  \/ \E i \in 1..MaxFlows : DirectOk(i)
  \/ \E i \in 1..MaxFlows : DirectFail(i)
  \/ \E t \in 1..MaxDrains : TimerFire("k1", t)
  \/ \E t \in 1..MaxDrains : Resume("k1", t)
  \/ \E t \in 1..MaxDrains : SendOk("k1", t)
  \/ \E t \in 1..MaxDrains : SendFail("k1", t)
  \/ Tick(1, MaxTicksFlow)

SpecFlow == Init /\ [][NextFlow]_vars

\* invocations with a label and a cleanup parameter: an active requester in
\* followup, steer or immediate mode
FollowUpInputs ==
  {in \in [mode : {"followup", "steer", "immediate"}, session : {"active"},
           accepts : BOOLEAN, dropPolicy : {"new"}, prelude : BOOLEAN,
           label : {<<>>, <<"w", "o", "r", "k", "e", "r">>}, cleanup : {"delete", "keep"}] :
     /\ in.accepts => in.mode = "steer"
     /\ ~in.prelude => in.mode = "followup"}

NextFollowUp ==
  \/ \E in \in FollowUpInputs, debounceMs \in {<<0>>, <<1>>} :
       FlowStart("k1", DestA, in, debounceMs, <<1>>, MaxFlows)
  \/ \E i \in 1..MaxFlows : FlowResume(i)
  \/ \E i \in 1..MaxFlows : DirectOk(i)
  \/ \E i \in 1..MaxFlows : DirectFail(i)
  \/ \E i \in 1..MaxFlows : PatchOk(i)
  \/ \E i \in 1..MaxFlows : PatchFail(i)
  \/ \E i \in 1..MaxFlows : DeleteOk(i)
  \/ \E i \in 1..MaxFlows : DeleteFail(i)
  \/ \E t \in 1..MaxDrains : TimerFire("k1", t)
  \/ \E t \in 1..MaxDrains : Resume("k1", t)
  \/ \E t \in 1..MaxDrains : SendOk("k1", t)
  \/ \E t \in 1..MaxDrains : SendFail("k1", t)
  \/ Tick(1, MaxTicksFlow)

SpecFollowUp == Init /\ [][NextFollowUp]_vars

\* Settings: one key whose calls supply, leave out, or supply out of range
\* each of debounce, capacity and drop policy; the clock stands still, so only
\* drains without a debounce go on.
SettingsInputs ==
  {Setting(mode, debounceMs, cap, dropPolicy) :
     mode \in {"followup", "collect"},
     debounceMs \in {<<>>, <<-1>>, <<1>>},
     cap \in {<<>>, <<-1>>, <<0>>, <<1>>},
     dropPolicy \in {<<>>, <<"new">>}}

NextSettings ==
  \/ \E settings \in SettingsInputs :
       AnnounceWith("k1", DestA, settings, MaxAnnounceSettings)
  \/ \E t \in 1..MaxDrains : Resume("k1", t)
  \/ \E t \in 1..MaxDrains : SendOk("k1", t)
  \/ \E t \in 1..MaxDrains : SendFail("k1", t)

SpecSettings == Init /\ [][NextSettings]_vars

\* Two keys: followup mode, no debounce, cap 2.  Promise continuations always
\* run; the transport answers the calls of k2, while a call of k1 may stay in
\* flight for ever or fail.
KeysSettings == Setting("followup", <<0>>, <<2>>, <<"summarize">>)

NextKeys ==
  \/ \E k \in Keys : Announce(k, DestA, KeysSettings, MaxAnnounceKeys)
  \/ \E k \in Keys, t \in 1..MaxDrains : Resume(k, t)
  \/ \E k \in Keys, t \in 1..MaxDrains : SendOk(k, t)
  \/ \E k \in Keys, t \in 1..MaxDrains : SendFail(k, t)

FairKeys ==
  /\ \A k \in Keys, t \in 1..MaxDrains : WF_vars(Resume(k, t))
  /\ \A t \in 1..MaxDrains : WF_vars(SendOk("k2", t) \/ SendFail("k2", t))

SpecKeys == Init /\ [][NextKeys]_vars /\ FairKeys

\* Collect mode over every kind of destination metadata, without drops.  The
\* first announce occupies the transport; those that follow are pending
\* together when its call returns.
CrossInputs ==
  {[dest |-> d, settings |-> Setting("collect", <<0>>, <<>>, <<"summarize">>)] :
      d \in {DestA, DestB, DestA2, DestNone, DestPartial, DestAccountOnly,
             DestBarInTo, DestBarInAccount}}

NextCross ==
  \/ \E in \in CrossInputs :
       /\ nCalls = 0 => in.dest = DestA
       /\ Announce("k1", in.dest, in.settings, MaxAnnounceCross)
  \/ \E t \in 1..MaxDrains : Resume("k1", t)
  \/ \E t \in 1..MaxDrains : SendOk("k1", t)
  \/ \E t \in 1..MaxDrains : SendFail("k1", t)

SpecCross == Init /\ [][NextCross]_vars

\* Rejected enqueues: the first announce creates the queue under reject-new
\* with capacity 1 and debounce 2; later announces repeat those settings,
\* switch to collect mode with capacity 2, or supply followup mode alone.
RejectFirst == Setting("followup", <<2>>, <<1>>, <<"new">>)

RejectSettings ==
  {RejectFirst,
   Setting("collect", <<2>>, <<2>>, <<"new">>),
   Setting("followup", <<>>, <<0>>, <<>>)}

NextReject ==
  \/ \E settings \in RejectSettings :
       /\ nCalls = 0 => settings = RejectFirst
       /\ AnnounceWith("k1", DestA, settings, MaxAnnounceReject)
  \/ \E t \in 1..MaxDrains : TimerFire("k1", t)
  \/ \E t \in 1..MaxDrains : Resume("k1", t)
  \/ \E t \in 1..MaxDrains : SendOk("k1", t)
  \/ \E t \in 1..MaxDrains : SendFail("k1", t)
  \/ Tick(1, MaxTicksReject)

SpecReject == Init /\ [][NextReject]_vars

\* A capacity lowered mid-life: followup mode, debounce 1, capacity 2 under
\* summarize, capacity 1 under summarize and under reject-new.
TrimSettings ==
  {Setting("followup", <<1>>, <<2>>, <<"summarize">>),
   Setting("followup", <<1>>, <<1>>, <<"summarize">>),
   Setting("followup", <<1>>, <<1>>, <<"new">>)}

NextTrim ==
  \/ \E settings \in TrimSettings : Announce("k1", DestA, settings, MaxAnnounceTrim)
  \/ \E t \in 1..MaxDrains : TimerFire("k1", t)
  \/ \E t \in 1..MaxDrains : Resume("k1", t)
  \/ \E t \in 1..MaxDrains : SendOk("k1", t)
  \/ \E t \in 1..MaxDrains : SendFail("k1", t)
  \/ Tick(1, MaxTime)

SpecTrim == Init /\ [][NextTrim]_vars

\* A transport that fails every call: announces for one key, to two
\* destinations, with no debounce and the default cap; every drain that can
\* resume does, and every call is answered, by a failure.
FailingSettings ==
  {Setting(mode, <<0>>, <<>>, <<"summarize">>) : mode \in {"followup", "collect"}}

NextFailing ==
  \/ \E dest \in {DestA, DestB}, settings \in FailingSettings :
       Announce("k1", dest, settings, MaxAnnounceFailing)
  \/ \E t \in 1..MaxDrains : Resume("k1", t)
  \/ \E t \in 1..MaxDrains : SendFail("k1", t)

FairFailing ==
  \A t \in 1..MaxDrains : WF_vars(Resume("k1", t)) /\ WF_vars(SendFail("k1", t))

SpecFailing == Init /\ [][NextFailing]_vars /\ FairFailing

\* ----------------------------------------------------- hook onboarding runs
\* setupInternalHooks is called: it shows its first note and waits for it
WizardStart ==
  /\ wizard.pc = "start"
  /\ wizard' = [wizard EXCEPT !.pc = "intro", !.notes = @ + 1]
  /\ UNCHANGED <<queueVars, loader, hookEntries, hooksCli>>

\* the first note is acknowledged: the hooks are discovered as they are then
WizardDiscover(report) ==
  /\ wizard.pc = "intro"
  /\ wizard' = AfterIntro(wizard, report)
  /\ UNCHANGED <<queueVars, loader, hookEntries, hooksCli>>

\* the note that says no hook is eligible is acknowledged: return cfg
WizardNoHooks ==
  /\ wizard.pc = "nohooks"
  /\ wizard' = [wizard EXCEPT !.pc = "done", !.result = <<wizard.cfg>>]
  /\ UNCHANGED <<queueVars, loader, hookEntries, hooksCli>>

\* the note that tells which hooks were enabled is acknowledged: return next
WizardEnabled ==
  /\ wizard.pc = "enabled"
  /\ wizard' = [wizard EXCEPT !.pc = "done", !.result = wizard.next]
  /\ UNCHANGED <<queueVars, loader, hookEntries, hooksCli>>

\* the prompt that setupInternalHooks waits for rejects: so does the run
WizardReject ==
  /\ wizard.pc \in {"intro", "nohooks", "select", "enabled"}
  /\ wizard' = [wizard EXCEPT !.pc = "threw"]
  /\ UNCHANGED <<queueVars, loader, hookEntries, hooksCli>>

\* the answers a multiselect over these options can give: the options
\* picked, each once, in the order offered
RECURSIVE Picks(_)
Picks(options) ==
  IF options = <<>> THEN {<<>>}
  ELSE LET rest == Picks(Tail(options))
       IN rest \cup {<<Head(options)>> \o r : r \in rest}

\* the user answers the multiselect
WizardSelect(toEnable) ==
  /\ wizard.pc = "select"
  /\ toEnable \in Picks(wizard.options)
  /\ wizard' = [AfterSelection(wizard, toEnable) EXCEPT !.answer = toEnable]
  /\ UNCHANGED <<queueVars, loader, hookEntries, hooksCli>>

\* the configurations and hook reports the wizard is run on
HookNames == {RecommendedName, "command-logger"}

EntryObjects ==
  {EmptyObject,
   RecommendedName :> [enabled |-> FALSE],
   "command-logger" :> [enabled |-> TRUE],
   (RecommendedName :> [enabled |-> FALSE]) @@ ("command-logger" :> [enabled |-> TRUE])}

InternalObjects ==
  {[enabled |-> e] : e \in BOOLEAN}
    \cup {[enabled |-> e, entries |-> en] : e \in BOOLEAN, en \in EntryObjects}
    \cup {[enabled |-> e, entries |-> en, handlers |-> <<"legacy">>] :
             e \in BOOLEAN, en \in EntryObjects}

TopLevelHooks ==
  {EmptyObject, [enabled |-> TRUE, path |-> "/webhook", token |-> "existing-token"]}

HooksObjects ==
  TopLevelHooks \cup {Spread(top, [internal |-> in]) : top \in TopLevelHooks,
                                                        in \in InternalObjects}

WizardConfigs ==
  LET other == {EmptyObject, [agents |-> [defaults |-> [workspace |-> "/workspace"]]]}
  IN other \cup {Spread(o, [hooks |-> h]) : o \in other, h \in HooksObjects}

RECURSIVE Reports(_)
Reports(n) ==
  IF n = 0 THEN {<<>>}
  ELSE LET shorter == Reports(n - 1)
       IN shorter \cup {Append(r, [name |-> name, eligible |-> e]) :
                          r \in shorter, name \in HookNames, e \in BOOLEAN}

InitWizard ==
  /\ InitQueue
  /\ wizard \in {NewWizard(cfg) : cfg \in WizardConfigs}
  /\ loader = NoLoader
  /\ hookEntries = NoMerge
  /\ hooksCli = NoCli

NextWizard ==
  \/ WizardStart
  \/ \E report \in Reports(MaxReport) : WizardDiscover(report)
  \/ WizardNoHooks
  \/ \E toEnable \in Picks(OptionValues(RecommendedHooks(wizard.report))) :
       WizardSelect(toEnable)
  \/ WizardEnabled
  \/ WizardReject

SpecWizard == InitWizard /\ [][NextWizard]_vars

\* ------------------------------------------------------------ hook loading
\* loadInternalHooks up to the first import, or to its return
LoaderStart ==
  /\ loader.pc = "start"
  /\ loader' = IF ~loader.enabled
               THEN [loader EXCEPT !.pc = "done", !.result = <<0>>]
               ELSE IF loader.discovery = "throws"
               THEN [loader EXCEPT !.pc = "legacy"]
               ELSE [loader EXCEPT !.pc = "hooks",
                                   !.eligible = EligibleEntries(loader.entries)]
  /\ UNCHANGED <<queueVars, wizard, hookEntries, hooksCli>>

\* the next eligible hook entry is handled, or the loop has ended
LoaderHook ==
  /\ loader.pc = "hooks"
  /\ loader' = IF loader.next > Len(loader.eligible)
               THEN [loader EXCEPT !.pc = "legacy", !.next = 1]
               ELSE [LoadHook(loader, loader.eligible[loader.next]) EXCEPT !.next = @ + 1]
  /\ UNCHANGED <<queueVars, wizard, hookEntries, hooksCli>>

\* the next legacy handler is handled, or the function returns loadedCount
LoaderLegacy ==
  /\ loader.pc = "legacy"
  /\ loader' = IF loader.next > Len(loader.handlers)
               THEN [loader EXCEPT !.pc = "done", !.result = <<loader.loadedCount>>]
               ELSE [LoadLegacy(loader, loader.next) EXCEPT !.next = @ + 1]
  /\ UNCHANGED <<queueVars, wizard, hookEntries, hooksCli>>

\* the hook entries a discovery may return: each is left out by
\* shouldIncludeHook, disabled in config, fails to import, exports no function,
\* lists no event, or loads for one or two events
EntryKinds ==
  {HookEntry(FALSE, FALSE, "function", <<"command:new">>),
   HookEntry(TRUE, TRUE, "function", <<"command:new">>),
   HookEntry(TRUE, FALSE, "throws", <<"command:new">>),
   HookEntry(TRUE, FALSE, "notfunction", <<"command:new">>),
   HookEntry(TRUE, FALSE, "function", <<>>),
   HookEntry(TRUE, FALSE, "function", <<"command:new">>),
   HookEntry(TRUE, FALSE, "function", <<"command:new", "command:stop">>)}

LegacyKinds ==
  {LegacyHandler("command:new", import) : import \in {"throws", "notfunction", "function"}}

RECURSIVE SeqsUpTo(_, _)
SeqsUpTo(S, n) ==
  IF n = 0 THEN {<<>>}
  ELSE LET shorter == SeqsUpTo(S, n - 1)
       IN shorter \cup {Append(s, x) : s \in shorter, x \in S}

InitLoader ==
  /\ InitQueue
  /\ wizard = NoWizard
  /\ hookEntries = NoMerge
  /\ hooksCli = NoCli
  /\ loader \in {NewLoader(enabled, discovery, entries, handlers) :
                   enabled \in BOOLEAN, discovery \in {"ok", "throws"},
                   entries \in SeqsUpTo(EntryKinds, MaxHooks),
                   handlers \in SeqsUpTo(LegacyKinds, MaxLegacy)}

NextLoader == LoaderStart \/ LoaderHook \/ LoaderLegacy

SpecLoader == InitLoader /\ [][NextLoader]_vars

\* ---------------------------------------------------------- hook discovery
\* loadHookEntries from its call to its return
LoadEntries ==
  /\ hookEntries.pc = "start"
  /\ hookEntries' = [hookEntries EXCEPT !.pc = "done",
                                        !.result = LoadHookEntries(hookEntries.dirs)]
  /\ UNCHANGED <<queueVars, wizard, loader, hooksCli>>

\* subdirectories: two that name themselves, one whose frontmatter gives the
\* name of another, one without a handler file
DirEntryKinds ==
  {DirEntry("alpha", "", TRUE), DirEntry("beta", "", TRUE),
   DirEntry("beta", "alpha", TRUE), DirEntry("gamma", "", FALSE)}

\* the listings of a directory: up to n subdirectories of different names
Listings(n) ==
  {l \in SeqsUpTo(DirEntryKinds, n) :
     \A i, j \in 1..Len(l) : i # j => l[i].dir # l[j].dir}

InitEntries ==
  /\ InitQueue
  /\ wizard = NoWizard
  /\ loader = NoLoader
  /\ hooksCli = NoCli
  /\ hookEntries \in {NewMerge([extra |-> e, bundled |-> b, managed |-> m, workspace |-> w]) :
                        e \in Listings(MaxDirEntries), b \in Listings(MaxDirEntries),
                        m \in Listings(MaxDirEntries), w \in Listings(MaxDirEntries)}

NextEntries == LoadEntries

SpecEntries == InitEntries /\ [][NextEntries]_vars

\* ------------------------------------------------------------- hooks cli
\* a command starts: it reads the configuration file, and throws or calls
\* writeConfigFile and waits for it
CliEnable(hookName, limit) ==
  /\ hooksCli.pc = "ready" /\ hooksCli.runs < limit
  /\ hooksCli' = EnableHook(hooksCli, hookName)
  /\ UNCHANGED <<queueVars, wizard, loader, hookEntries>>

CliDisable(hookName, limit) ==
  /\ hooksCli.pc = "ready" /\ hooksCli.runs < limit
  /\ hooksCli' = DisableHook(hooksCli, hookName)
  /\ UNCHANGED <<queueVars, wizard, loader, hookEntries>>

\* the write of the n-th command is done and the command goes on to its end
CliWrite(n) ==
  /\ hooksCli.pc = "ready"
  /\ n \in 1..Len(hooksCli.cmds) /\ hooksCli.cmds[n].outcome = "writing"
  /\ hooksCli' = [WriteConfigFile(hooksCli, hooksCli.cmds[n].nextConfig[1])
                    EXCEPT !.cmds[n].outcome = "ok"]
  /\ UNCHANGED <<queueVars, wizard, loader, hookEntries>>

\* cfg.hooks?.internal?.enabled, as the condition of loadInternalHooks reads it
InternalEnabled(config) ==
  "enabled" \in DOMAIN InternalObject(config) /\ InternalObject(config).enabled = TRUE

\* the gateway starts and calls loadInternalHooks on the configuration file
\* as it is then: the loader looks up each entry's configuration under the
\* name of the hook
CliLoad ==
  /\ hooksCli.pc = "ready" /\ loader.pc \in {"none", "done"}
  /\ loader' = NewLoader(InternalEnabled(hooksCli.config), "ok",
                         [i \in 1..Len(hooksCli.entries) |->
                            HookEntry(hooksCli.entries[i].included,
                                      EnabledIsFalse(ResolveHookConfig(
                                        hooksCli.config, hooksCli.entries[i].name)),
                                      "function", <<"command:new">>)],
                         <<>>)
  /\ hooksCli' = [hooksCli EXCEPT !.loaded = <<hooksCli.config>>]
  /\ UNCHANGED <<queueVars, wizard, hookEntries>>

CliHookNames == {"alpha", "beta"}

\* hook entries: ready ones with and without a hookKey of their own, one whose
\* requirements are missing
CliEntryKinds ==
  {CliEntry("alpha", <<>>, TRUE, TRUE), CliEntry("alpha", <<>>, FALSE, FALSE),
   CliEntry("alpha", <<"alpha-key">>, TRUE, TRUE), CliEntry("beta", <<>>, TRUE, TRUE)}

\* configuration files: none, one with settings besides the hooks and with
\* entries of both hooks, one with the internal hooks on and an entry under a
\* hookKey
CliConfigs ==
  {EmptyObject,
   [logging |-> [level |-> "info"],
    hooks |-> [token |-> "secret",
               internal |-> [enabled |-> FALSE,
                             load |-> [extraDirs |-> <<"/extra">>],
                             entries |-> [alpha |-> [enabled |-> FALSE],
                                          beta |-> [enabled |-> TRUE,
                                                    env |-> [KEY |-> "v"]]]]]],
   [hooks |-> [internal |-> [enabled |-> TRUE,
                             entries |-> ("alpha-key" :> [enabled |-> TRUE])]]]}

InitCli ==
  /\ InitQueue
  /\ wizard = NoWizard
  /\ loader = NoLoader
  /\ hookEntries = NoMerge
  /\ hooksCli \in {NewCli(entries, config) :
                     entries \in {l \in SeqsUpTo(CliEntryKinds, MaxCliHooks) :
                                    \A i, j \in 1..Len(l) : i # j => l[i].name # l[j].name},
                     config \in CliConfigs}

NextCli ==
  \/ \E hookName \in CliHookNames \cup {"ghost"} : CliEnable(hookName, MaxCommands)
  \/ \E hookName \in CliHookNames \cup {"ghost"} : CliDisable(hookName, MaxCommands)
  \/ \E n \in 1..MaxCommands : CliWrite(n)
  \/ CliLoad
  \/ LoaderStart
  \/ LoaderHook
  \/ LoaderLegacy

SpecCli == InitCli /\ [][NextCli]_vars

\* ----------------------------------------------------------------- claims
Message(call) == call.item.prompt
LastCall(k) == calls[k][Len(calls[k])]

\* the step started a sendAnnounce call for k
CallStarted(k) == Len(calls'[k]) = Len(calls[k]) + 1
NewCall(k) == calls'[k][Len(calls'[k])]

\* the message carries the announce whose prompt is p
Carries(message, p) ==
  \E i \in 1..Len(message) :
    \/ message[i].tag = "raw" /\ message[i].text = p
    \/ message[i].tag = "queued" /\ message[i].text = TrimEnd(p)

\* C1: for every key at most one drain task is live at any moment; the live
\* drain works on the very queue object the store holds under the key (the
\* one enqueueAnnounce appends to), that object has draining set, and a set
\* draining flag always has its one live drain, whether the drain is
\* suspended in the debounce wait or in a transport call.
C1_SingleDrainPerKey ==
  \A k \in Keys :
    /\ Cardinality(LiveTasks(k)) <= 1
    /\ \A t \in LiveTasks(k) :
         /\ Present(k)
         /\ Task(k, t).obj = store[k]
         /\ Q(k).draining
    /\ (Present(k) /\ Q(k).draining) => Cardinality(LiveTasks(k)) = 1

\* a drain suspended in the transport call of a combined delivery while an
\* announce enqueued meanwhile waits in the sequence it reads
C1_Witness ==
  \E k \in Keys, t \in 1..MaxDrains :
    /\ Live(k, t) /\ Task(k, t).pc = "send"
    /\ Message(LastCall(k))[1].tag = "marker"
    /\ Q(k).items # <<>>
    /\ LiveTasks(k) = {t}

\* C2: at-least-once delivery needs that an accepted announce that the cap did
\* not evict is, at every moment, still queued, inside a transport call in
\* flight, or inside a transport call that succeeded; otherwise no later
\* drain pass can deliver it.
C2_AcceptedAnnounceNeverLost ==
  \A k \in Keys :
    \A p \in hist[k].accepted \ hist[k].evicted :
      \/ Present(k) /\ p \in Prompts(Q(k).items)
      \/ \E i \in 1..Len(calls[k]) :
           calls[k][i].status \in {"pending", "ok"} /\ Carries(Message(calls[k][i]), p)

\* C3: a drain step that hands the transport an overflow notice as a message
\* of its own removes no queued item.
C3_NoticeRemovesNoItem ==
  [][\A k \in Keys :
       (CallStarted(k) /\ Message(NewCall(k))[1].tag = "overflow")
         => (Present(k))' /\ (Q(k).items)' = Q(k).items]_vars

\* C4: dropped-count returns to 0 only in a step that hands the transport a
\* message holding the overflow notice with that count and the summaries.
C4_DebtClearedOnlyByNotice ==
  [][\A k \in Keys :
       (/\ Present(k) /\ Q(k).droppedCount > 0
        /\ (~(Present(k))' \/ (Q(k).droppedCount)' = 0))
         => /\ CallStarted(k)
            /\ \E i \in 1..Len(Message(NewCall(k))) :
                 Message(NewCall(k))[i] =
                   OverflowBlock(Q(k).droppedCount, Q(k).summaryLines)]_vars

\* the step is an enqueueAnnounce call for k that found an entry under k
EnqueuedOn(k) == nCalls' = nCalls + 1 /\ ret'.key = k /\ Present(k) /\ (Present(k))'

\* C5: under reject-new, an enqueue that finds capacity-or-more items queued
\* returns false and leaves sequence, dropped-count and summaries unchanged
\* (capacity and policy being those in force after the call's settings merge).
C5_RejectNewLeavesQueue ==
  [][\A k \in Keys :
       (/\ EnqueuedOn(k)
        /\ (Q(k).dropPolicy)' = "new"
        /\ Len(Q(k).items) >= (Q(k).cap)')
         => /\ ret'.accepted = FALSE
            /\ (Q(k).items)' = Q(k).items
            /\ (Q(k).droppedCount)' = Q(k).droppedCount
            /\ (Q(k).summaryLines)' = Q(k).summaryLines]_vars

\* capacity 2: two enqueues accepted on a fresh key, no drain progress, the
\* third returned false and the length is still 2
C5_Witness ==
  /\ Present("k1") /\ calls["k1"] = <<>>
  /\ nCalls = 3 /\ ret = [key |-> "k1", accepted |-> FALSE]
  /\ Q("k1").cap = 2 /\ Len(Q("k1").items) = 2
  /\ Cardinality(hist["k1"].accepted) = 2 /\ hist["k1"].evicted = {}

\* C6: under evict-oldest-and-summarize, an enqueue that finds length >=
\* capacity removes exactly (length - capacity + 1) items from the head, adds
\* that number to dropped-count, appends their summaries in eviction order
\* (the list then keeps its newest `capacity` entries), appends the new item
\* and returns true.
C6_EvictOldestAndSummarize ==
  [][\A k \in Keys :
       (/\ EnqueuedOn(k)
        /\ (Q(k).dropPolicy)' = "summarize"
        /\ Len(Q(k).items) >= (Q(k).cap)')
         => LET old == Q(k).items
                cap == (Q(k).cap)'
                drop == Len(old) - cap + 1
                new == (Q(k).items)'
            IN /\ ret'.accepted
               /\ Len(new) = Len(old) - drop + 1
               /\ SubSeq(new, 1, Len(new) - 1) = SubSeq(old, drop + 1, Len(old))
               /\ new[Len(new)].prompt = PromptOf(nCalls')
               /\ (Q(k).droppedCount)' = Q(k).droppedCount + drop
               /\ (Q(k).summaryLines)' =
                    LastN(Q(k).summaryLines
                            \o [i \in 1..drop |-> BuildQueueSummaryLine(old[i])], cap)
               /\ hist'[k].evicted =
                    hist[k].evicted \cup {old[i].prompt : i \in 1..drop}]_vars

\* capacity 2, enqueues m1..m4 and no drain progress: the sequence is
\* [m3, m4], dropped-count 2, the summaries those of m1 then m2
C6_Witness ==
  /\ Present("k1") /\ calls["k1"] = <<>> /\ nCalls = 4
  /\ Q("k1").cap = 2 /\ Q("k1").dropPolicy = "summarize"
  /\ [i \in 1..Len(Q("k1").items) |-> Q("k1").items[i].prompt] = <<PromptOf(3), PromptOf(4)>>
  /\ Q("k1").droppedCount = 2
  /\ Q("k1").summaryLines = << <<"t", "1">>, <<"m", "2">> >>

\* C7 as claimed: a queue never holds more items than its current capacity.
C7_LengthWithinCap ==
  \A k \in Keys : Present(k) => Len(Q(k).items) <= Q(k).cap

\* C7 as the code has it: a queue holds more items than its current
\* capacity only under reject-new (an enqueue that lowered the capacity
\* below the number queued was rejected and left the sequence as it was).
C7_LengthWithinCapUnlessRejectNew ==
  \A k \in Keys :
    Present(k) => (Len(Q(k).items) <= Q(k).cap \/ Q(k).dropPolicy = "new")

\* an evicting enqueue lowered the capacity from 2 to 1 with two items
\* queued: both were evicted and the sequence holds the new item alone
C7_Witness ==
  /\ Present("k1") /\ calls["k1"] = <<>> /\ nCalls = 3
  /\ Q("k1").cap = 1 /\ Q("k1").dropPolicy # "new"
  /\ Len(Q("k1").items) = 1 /\ Q("k1").items[1].prompt = PromptOf(3)
  /\ Cardinality(hist["k1"].evicted) = 2

\* the drain task in slot t of k ran a loop iteration in this step: it left
\* its wait for a transport call or for the finally block
Iterated(k, t) ==
  /\ Live(k, t) /\ Task(k, t).pc \in {"micro", "timer"}
  /\ \/ ~(Live(k, t))'
     \/ (Task(k, t).pc)' = "send"
     \/ (Task(k, t).sid)' # Task(k, t).sid

SameSession(k, t) == Live(k, t) /\ (Live(k, t))' /\ (Task(k, t).sid)' = Task(k, t).sid

\* C8: no transport call for a key starts while fewer than the stored
\* debounceMs have elapsed since the key's most recent enqueue.
C8_NoCallBeforeQuietPeriod ==
  [][\A k \in Keys :
       CallStarted(k) => now - Q(k).lastEnqueuedAt >= Q(k).debounceMs]_vars

\* the destination of an item: channel, recipient and account id
DestOf(item) ==
  <<item.originatingChannel, item.originatingTo, item.originatingAccountId>>

\* every pair of pending items agrees on (channel, recipient)
SameChannelAndTo(items) ==
  \A i, j \in 1..Len(items) :
    /\ items[i].originatingChannel = items[j].originatingChannel
    /\ items[i].originatingTo = items[j].originatingTo

\* every pair agrees on (channel, recipient, account id), and the metadata is
\* complete (channel and recipient present) or wholly absent
SameFullDestination(items) ==
  /\ \A i, j \in 1..Len(items) : DestOf(items[i]) = DestOf(items[j])
  /\ \A i \in 1..Len(items) :
       \/ items[i].originatingChannel # "" /\ items[i].originatingTo # ""
       \/ DestOf(items[i]) = <<"", "", "">>

\* the step made exactly one transport call for k, emptied the sequence, and
\* the message holds one 'Queued #i' block per item of `items`, in order
CombinedDelivery(k, items) ==
  /\ CallStarted(k)
  /\ (Present(k))' /\ (Q(k).items)' = <<>>
  /\ Message(NewCall(k))[1].tag = "marker"
  /\ SelectSeq(Message(NewCall(k)), LAMBDA b : b.tag = "queued")
       = [i \in 1..Len(items) |->
            [tag |-> "queued", n |-> i, lines |-> <<>>, text |-> TrimEnd(items[i].prompt)]]

\* C9 as claimed: in collect mode with the switch not tripped, pending items
\* with identical (channel, recipient) are delivered by one drain step in
\* one combined transport call.
C9_CollectSameChannelAndTo ==
  [][\A k \in Keys, t \in 1..MaxDrains :
       (/\ Iterated(k, t) /\ ~Task(k, t).force
        /\ Q(k).mode = "collect" /\ Q(k).items # <<>>
        /\ SameChannelAndTo(Q(k).items))
         => CombinedDelivery(k, Q(k).items)]_vars

\* C9 as the code has it: the same, for pending items with identical
\* (channel, recipient, account id) whose channel and recipient are both
\* present or whose metadata is wholly absent.
C9_CollectSameFullDestination ==
  [][\A k \in Keys, t \in 1..MaxDrains :
       (/\ Iterated(k, t) /\ ~Task(k, t).force
        /\ Q(k).mode = "collect" /\ Q(k).items # <<>>
        /\ SameFullDestination(Q(k).items))
         => CombinedDelivery(k, Q(k).items)]_vars

\* a combined call in flight that took two pending items at once
C9_Witness ==
  /\ Present("k1") /\ Q("k1").items = <<>> /\ calls["k1"] # <<>>
  /\ LastCall("k1").status = "pending"
  /\ Len(Message(LastCall("k1"))) = 3
  /\ Message(LastCall("k1"))[2] =
       [tag |-> "queued", n |-> 1, lines |-> <<>>, text |-> <<"m", "2">>]
  /\ Message(LastCall("k1"))[3].tag = "queued" /\ Message(LastCall("k1"))[3].n = 2

\* some two pending items differ in (channel, recipient)
DiffersInChannelOrTo(items) == ~SameChannelAndTo(items)

\* the step delivered the head of `items` alone, verbatim, and left the rest
IndividualDelivery(k, items) ==
  /\ CallStarted(k)
  /\ Message(NewCall(k)) =
       <<[tag |-> "raw", n |-> 0, lines |-> <<>>, text |-> items[1].prompt]>>
  /\ (Present(k))' /\ (Q(k).items)' = Tail(items)

\* C10: in collect mode, a drain session that sees pending items differing
\* in (channel, recipient) delivers the oldest item alone and from then on,
\* for as long as the session lasts, delivers one item per call in FIFO
\* order, whatever is pending.
C10_StickyIndividualDelivery ==
  [][\A k \in Keys, t \in 1..MaxDrains :
       /\ (SameSession(k, t) /\ Task(k, t).force) => (Task(k, t).force)'
       /\ (/\ Iterated(k, t)
           /\ Q(k).mode = "collect" /\ Q(k).items # <<>>
           /\ (Task(k, t).force \/ DiffersInChannelOrTo(Q(k).items)))
            => /\ IndividualDelivery(k, Q(k).items)
               /\ SameSession(k, t) /\ (Task(k, t).force)']_vars

\* the announce payloads handed to the transport for k, in the order of the
\* calls and, inside a combined message, of its blocks
RECURSIVE PayloadsOf(_)
PayloadsOf(cs) ==
  IF cs = <<>> THEN <<>>
  ELSE SelectSeq(Message(Head(cs)), LAMBDA b : b.tag \in {"raw", "queued"})
         \o PayloadsOf(Tail(cs))

\* the block is the payload of the n-th announce
PayloadOf(block, n) ==
  \/ block.tag = "raw" /\ block.text = PromptOf(n)
  \/ block.tag = "queued" /\ block.text = TrimEnd(PromptOf(n))

\* C11: within one key, announce payloads reach the transport in enqueue
\* order: the payload of a later-accepted announce never precedes the payload
\* of an earlier-accepted one, neither in an earlier call nor earlier inside
\* the same combined message.
C11_DeliveredInEnqueueOrder ==
  \A k \in Keys :
    LET d == PayloadsOf(calls[k])
    IN \A i, j \in 1..Len(d) :
         i < j => \A x, y \in 1..nCalls :
                    (PayloadOf(d[i], x) /\ PayloadOf(d[j], y)) => x < y

\* two announces of one key handed to the transport in two calls, the
\* earlier-enqueued one alone in the first call
C11_Witness ==
  \E k \in Keys :
    /\ Len(calls[k]) >= 2
    /\ Len(PayloadsOf(calls[k])) >= 2
    /\ \E x, y \in 1..nCalls :
         /\ x < y
         /\ PayloadOf(PayloadsOf(calls[k])[1], x)
         /\ PayloadOf(PayloadsOf(calls[k])[2], y)
         /\ Len(Message(calls[k][1])) = 1

\* the drain session running in slot t of k ended in this step
SessionEnded(k, t) == Live(k, t) /\ ~SameSession(k, t)

\* the step is an enqueueAnnounce call for k that found no entry under k
EnqueuedFresh(k) == nCalls' = nCalls + 1 /\ ret'.key = k /\ ~Present(k)

\* the entry a call with these settings creates, before the append
FreshState(queue, settings) ==
  /\ queue.mode = settings.mode
  /\ queue.debounceMs = (IF settings.debounceMs = <<>> THEN 1000 ELSE settings.debounceMs[1])
  /\ queue.cap = (IF settings.cap = <<>> THEN 20 ELSE settings.cap[1])
  /\ queue.dropPolicy = (IF settings.dropPolicy = <<>> THEN "summarize"
                         ELSE settings.dropPolicy[1])
  /\ queue.droppedCount = 0
  /\ queue.summaryLines = <<>>

\* C12: no entry with empty sequence, zero dropped-count and no running drain
\* is ever left in the store; when a drain ends and leaves neither backlog
\* nor drop debt the key is absent from the store; and an enqueue under an
\* absent key yields a state holding the new item alone, dropped-count 0, no
\* summaries, and the settings of that call or the defaults.
C12_QuiescentCleanup ==
  [][\A k \in Keys :
       /\ (Present(k))' =>
            \/ (Q(k).items)' # <<>>
            \/ (Q(k).droppedCount)' # 0
            \/ (LiveTasks(k))' # {}
       /\ \A t \in 1..MaxDrains :
            (SessionEnded(k, t) /\ (Present(k))') =>
               ((Q(k).items)' # <<>> \/ (Q(k).droppedCount)' # 0)
       /\ EnqueuedFresh(k) =>
            /\ (Present(k))'
            /\ Len((Q(k).items)') = 1
            /\ (Q(k).items)'[1].prompt = PromptOf(nCalls')
            /\ ret'.accepted
            /\ \E settings \in LifecycleSettings : FreshState((Q(k))', settings)]_vars

\* the key was drained and deleted after a call that set cap 1, policy "old"
\* and no debounce, and a later call that set only the mode re-created it with
\* the default settings
C12_Witness ==
  /\ Present("k1") /\ nCalls >= 2
  /\ \E i \in 1..Len(calls["k1"]) : calls["k1"][i].item.prompt = <<RawBlock(PromptOf(1))>>
  /\ Len(Q("k1").items) = 1 /\ Q("k1").items[1].prompt = PromptOf(nCalls)
  /\ hist["k1"].evicted = {}
  /\ Q("k1").mode = "collect" /\ Q("k1").cap = 20 /\ Q("k1").debounceMs = 1000
  /\ Q("k1").dropPolicy = "summarize"
  /\ now > Q("k1").lastEnqueuedAt

\* the transport call the drain in slot t of k waits for failed in this step
CallFailed(k, t) ==
  /\ Live(k, t) /\ Task(k, t).pc = "send"
  /\ calls'[k][Task(k, t).call].status = "fail"

\* C13: when a transport call fails, the drain session that made it ends
\* without a further transport call; if the sequence is empty and
\* dropped-count is zero the key is removed from the store, otherwise a new
\* drain session runs for the key at once (draining set, the individual-
\* delivery switch reset) on the untouched backlog and drop debt.
C13_FailureEndsPass ==
  [][\A k \in Keys, t \in 1..MaxDrains :
       CallFailed(k, t) =>
         /\ ~CallStarted(k) /\ Len(calls'[k]) = Len(calls[k])
         /\ SessionEnded(k, t)
         /\ IF Q(k).items = <<>> /\ Q(k).droppedCount = 0
            THEN ~(Present(k))' /\ (LiveTasks(k))' = {}
            ELSE /\ (Present(k))' /\ (Q(k).draining)'
                 /\ (Q(k).items)' = Q(k).items
                 /\ (Q(k).droppedCount)' = Q(k).droppedCount
                 /\ \E u \in 1..MaxDrains :
                      /\ (LiveTasks(k))' = {u}
                      /\ (Task(k, u).sid)' # Task(k, t).sid
                      /\ (Task(k, u).pc)' \in {"micro", "timer"}
                      /\ ~(Task(k, u).force)']_vars

\* the first call of a key failed, a second call, made by the drain session
\* started after the failure, succeeded, and the key was then removed
C13_Witness ==
  \E k \in Keys :
    /\ Len(calls[k]) >= 2
    /\ calls[k][1].status = "fail"
    /\ calls[k][2].status = "ok"
    /\ ~Present(k)

\* C14: once enqueues for a key have stopped, its drain terminates and the
\* key is removed from the store for good, whatever modes and drop policies
\* were applied during the key's life and whether transport calls succeed or
\* fail.
C14_DrainTerminates == <>[](\A k \in Keys : ~Present(k))

\* the queue as the finally block of the drain in slot t of k finds it when
\* the session ends in this step: after the loop iteration the step ran, if any
AtFinally(k, t) ==
  IF Task(k, t).pc = "send" THEN Q(k)
  ELSE DrainBody(Q(k), Task(k, t).force).queue

\* an item without its prompt: what a transport call keeps of the item it is
\* made for
Envelope(item) == [item EXCEPT !.prompt = <<>>]

\* C15: a key is removed from the store only by the finally block of its
\* drain, finding the sequence empty and dropped-count zero, and never while
\* the stored sequence holds an item; a queued item leaves the sequence only
\* when an enqueue at capacity evicts it or when a drain step pops it and
\* makes a transport call for it in the same step.  In particular items
\* accepted while the drain is suspended stay queued across the drain's
\* resumption, pops and cleanup.
C15_NoLostUpdate ==
  [][\A k \in Keys :
       Present(k) =>
         /\ ~(Present(k))' =>
              /\ Q(k).items = <<>>
              /\ \E t \in LiveTasks(k) :
                   /\ SessionEnded(k, t)
                   /\ AtFinally(k, t).items = <<>>
                   /\ AtFinally(k, t).droppedCount = 0
         /\ (Present(k))' =>
              LET old == Q(k).items
                  new == (Q(k).items)'
              IN IF nCalls' # nCalls
                 THEN \E d \in 0..Len(old) :
                        /\ {old[i].prompt : i \in 1..d} \subseteq hist'[k].evicted
                        /\ \/ new = SubSeq(old, d + 1, Len(old))
                           \/ /\ new # <<>>
                              /\ SubSeq(new, 1, Len(new) - 1) = SubSeq(old, d + 1, Len(old))
                              /\ new[Len(new)].prompt = PromptOf(nCalls')
                 ELSE \/ new = old /\ ~CallStarted(k)
                      \/ \E d \in 1..Len(old) :
                           /\ new = SubSeq(old, d + 1, Len(old))
                           /\ CallStarted(k)
                           /\ Envelope(NewCall(k).item) = Envelope(old[d])]_vars

\* the second announce of a key was accepted while the drain was suspended,
\* and is still queued while the transport call for the first is in flight
C15_Witness ==
  \E k \in Keys, t \in 1..MaxDrains :
    /\ Live(k, t) /\ Task(k, t).pc = "send" /\ Task(k, t).call = 1
    /\ Len(calls[k]) = 1
    /\ Len(Message(calls[k][1])) = 1 /\ Message(calls[k][1])[1].tag = "raw"
    /\ Len(Q(k).items) = 1
    /\ Q(k).items[1].enqueuedAt > 0
    /\ Cardinality(hist[k].accepted) = 2 /\ hist[k].evicted = {}

\* the step is an invocation of the announce flow that got as far as having
\* a message to announce
FlowStarted == Len(flows') = Len(flows) + 1 /\ event'.built
NewFlow == flows'[Len(flows')]
LastFlow == flows[Len(flows)]

\* the step resumes the i-th invocation from its await of
\* maybeQueueSubagentAnnounce
FlowResumed(i) == i \in 1..Len(flows) /\ flows[i].suspended /\ ~flows'[i].suspended

\* the injection the invocation tried in a steer mode succeeded
Injected(e) == e.mode \in {"steer", "steer-backlog"} /\ e.session = "active" /\ e.accepts

\* C16: for an active session in mode followup, collect, interrupt or
\* steer-backlog, or in mode steer, when no injection succeeded, the flow calls
\* enqueue under the destination's key and schedules the drain: when
\* maybeQueueSubagentAnnounce returns a drain is running for that key, an
\* accepted message is the newest queued item and the outcome is queued; and
\* when the invocation resumes it returns true with a drain still running
\* for the key, and has made no transport call itself.
C16_ActiveSessionQueues ==
  [][/\ (/\ FlowStarted
         /\ event'.session = "active"
         /\ event'.mode \in {"followup", "collect", "interrupt", "steer-backlog", "steer"}
         /\ ~Injected(event'))
          => /\ NewFlow.queued = "queued" /\ NewFlow.suspended
             /\ NewFlow.direct = "none"
             /\ nCalls' = nCalls + 1 /\ ret'.key = NewFlow.key
             /\ \E k \in Keys :
                  /\ k = NewFlow.key
                  /\ (Present(k))'
                  /\ (Q(k).draining)' /\ (LiveTasks(k))' # {}
                  /\ (Q(k).mode)' = event'.mode
                  /\ ret'.accepted =>
                       /\ (Q(k).items)' # <<>>
                       /\ (Q(k).items[Len(Q(k).items)].prompt)' = PromptOf(nCalls')
             /\ calls' = calls
     /\ \A i \in 1..MaxFlows :
          (FlowResumed(i) /\ flows[i].queued = "queued")
            => /\ flows'[i].result = "true" /\ flows'[i].direct = "none"
               /\ \E k \in Keys : k = flows[i].key /\ Present(k) /\ LiveTasks(k) # {}
               /\ UNCHANGED <<store, heap, tasks, calls, nCalls, hist>>]_vars

\* steer mode, the running turn refused the injection: the message is queued
\* and the drain of the key is running
C16_Witness ==
  /\ flows # <<>> /\ LastFlow.queued = "queued" /\ LastFlow.result = "true"
  /\ event.mode = "steer" /\ event.session = "active" /\ ~event.accepts
  /\ Present("k1") /\ Q("k1").draining /\ Q("k1").mode = "steer"
  /\ Len(Q("k1").items) = 1 /\ LiveTasks("k1") # {}

\* C17: for a session that is not active, or mode immediate, the flow
\* creates no queue entry, appends no item and starts no drain, neither in
\* maybeQueueSubagentAnnounce nor when it resumes; on resuming it makes the
\* direct transport call carrying the message, and no invocation makes a
\* second one.
C17_InactiveOrImmediateDeliversDirectly ==
  [][/\ (/\ FlowStarted
         /\ (event'.session # "active" \/ event'.mode = "immediate"))
          => /\ NewFlow.queued = "none" /\ NewFlow.suspended
             /\ \A i \in 1..Len(flows) : flows'[i] = flows[i]
             /\ UNCHANGED <<store, heap, tasks, calls, nCalls, hist>>
     /\ \A i \in 1..MaxFlows :
          /\ (FlowResumed(i) /\ flows[i].queued = "none")
               => /\ flows[i].direct = "none" /\ flows'[i].direct = "pending"
                  /\ flows'[i].message = <<RawBlock(PromptOf(i))>>
                  /\ UNCHANGED <<store, heap, tasks, calls, nCalls, hist>>
          /\ (i \in 1..Len(flows) /\ flows[i].direct # "none")
               => flows'[i].direct \in {flows[i].direct, "ok", "fail"} \ {"none"}
          /\ (i \in 1..Len(flows) /\ flows[i].direct \in {"ok", "fail"})
               => flows'[i].direct = flows[i].direct]_vars

\* a session without a running turn in collect mode: no entry under the key,
\* the direct call in flight
C17_Witness ==
  /\ flows # <<>> /\ LastFlow.direct = "pending" /\ LastFlow.queued = "none"
  /\ event.session = "idle" /\ event.mode = "collect"
  /\ ~Present("k1") /\ nCalls = 0

\* C18: in mode steer or steer-backlog, when the injection into the running
\* session succeeds, the flow reports steered, changes nothing in the queue
\* store (no entry, no item, no drain) and makes no transport call: it
\* returns true when it resumes.
C18_SteeredLeavesQueueAlone ==
  [][/\ (FlowStarted /\ Injected(event'))
          => /\ NewFlow.queued = "steered" /\ NewFlow.suspended
             /\ NewFlow.direct = "none" /\ NewFlow.message = <<>>
             /\ UNCHANGED <<store, heap, tasks, calls, nCalls, hist>>
     /\ \A i \in 1..MaxFlows :
          (FlowResumed(i) /\ flows[i].queued = "steered")
            => /\ flows'[i].result = "true"
               /\ flows'[i].direct = "none" /\ flows'[i].message = <<>>
               /\ UNCHANGED <<store, heap, tasks, calls, nCalls, hist>>]_vars

\* steer-backlog with the injection accepted while the key has a queued item
\* and a running drain: reported steered, the queue as it was
C18_Witness ==
  /\ Len(flows) = 2 /\ LastFlow.queued = "steered" /\ LastFlow.result = "true"
  /\ flows[1].queued = "queued"
  /\ event.mode = "steer-backlog" /\ event.accepts
  /\ Present("k1") /\ Len(Q("k1").items) = 1 /\ nCalls = 1

\* C19: the flow reports queued only for a message that enqueue accepted.
C19_QueuedOnlyIfAccepted ==
  [][(FlowStarted /\ NewFlow.queued = "queued") => ret'.accepted]_vars

\* C20: no invocation of the flow ends by throwing: a failed direct call
\* makes it return false, and a failed call of a drain pass changes the
\* outcome of no invocation.
C20_FailuresNeverPropagate ==
  [][/\ \A i \in 1..Len(flows') :
          /\ flows'[i].result \in {"pending", "true", "false"}
          /\ flows'[i].direct = "fail" => flows'[i].result = "false"
          /\ flows'[i].result = "pending"
               <=> (flows'[i].suspended \/ flows'[i].direct = "pending")
     /\ \A k \in Keys, t \in 1..MaxDrains : CallFailed(k, t) => flows' = flows]_vars

\* one invocation's direct call failed and it returned false; another's
\* message was queued and the drain's call for it failed
C20_Witness ==
  /\ \E i \in 1..Len(flows) : flows[i].direct = "fail" /\ flows[i].result = "false"
  /\ \E i \in 1..Len(flows) : flows[i].queued = "queued" /\ flows[i].result = "true"
  /\ calls["k1"] # <<>> /\ calls["k1"][1].status = "fail"

\* the step is an enqueueAnnounce call for k
Enqueued(k) == nCalls' = nCalls + 1 /\ ret'.key = k

\* C21: after every enqueue call the stored capacity is positive, the stored
\* debounce is >= 0 and the stored mode is the supplied one; on an existing
\* entry a supplied capacity <= 0 or an absent one keeps the previous
\* capacity, a supplied negative debounce is stored as 0, and an absent
\* debounce or drop policy keeps the previous value.
C21_SettingsMerge ==
  [][\A k \in Keys :
       Enqueued(k) =>
         /\ (Present(k))'
         /\ (Q(k).cap)' > 0
         /\ (Q(k).debounceMs)' >= 0
         /\ (Q(k).mode)' = event'.mode
         /\ Present(k) =>
              /\ (Q(k).cap)' =
                   (IF event'.cap = <<>> THEN Q(k).cap
                    ELSE IF event'.cap[1] <= 0 THEN Q(k).cap ELSE event'.cap[1])
              /\ (Q(k).debounceMs)' =
                   (IF event'.debounceMs = <<>> THEN Q(k).debounceMs
                    ELSE IF event'.debounceMs[1] < 0 THEN 0 ELSE event'.debounceMs[1])
              /\ (Q(k).dropPolicy)' =
                   (IF event'.dropPolicy = <<>> THEN Q(k).dropPolicy
                    ELSE event'.dropPolicy[1])]_vars

\* an entry with capacity 1, debounce 1 and policy "new" went through a call
\* that supplied capacity 0, debounce -1 and no policy
C21_Witness ==
  /\ Present("k1") /\ nCalls >= 2
  /\ event = Setting("collect", <<-1>>, <<0>>, <<>>)
  /\ Q("k1").cap = 1 /\ Q("k1").debounceMs = 0 /\ Q("k1").dropPolicy = "new"
  /\ Q("k1").mode = "collect"
  /\ calls["k1"] = <<>>

\* everything the program holds for key k
KeyState(k) == <<store[k], heap[k], tasks[k], calls[k], hist[k]>>

\* C22: every step (enqueue, drain step, delivery failure, cleanup) changes
\* the state of at most one key; and whatever the drain of k1 does (its call
\* failing, or staying in flight for ever), the drain of k2 goes on until k2
\* is removed from the store.
C22_KeysIsolated ==
  /\ [][\A k, j \in Keys :
          (k # j /\ (KeyState(k))' # KeyState(k)) => (KeyState(j))' = KeyState(j)]_vars
  /\ <>[](~Present("k2"))

\* k2 was announced to, drained and removed while a call of k1 is in flight
\* and an earlier call of k1 failed
C22_Witness ==
  /\ ~Present("k2") /\ calls["k2"] # <<>>
  /\ Present("k1") /\ Len(calls["k1"]) = 2
  /\ calls["k1"][1].status = "fail" /\ calls["k1"][2].status = "pending"


\* C23: setupInternalHooks returns the input configuration unchanged when the
\* report holds no eligible recommended hook, and then the multiselect is
\* never shown, and when the user picks only the skip option; a run whose
\* prompt rejects returns nothing.
WizardDone == wizard.pc = "done"

C23_SkipReturnsInput ==
  /\ wizard.pc = "select" => RecommendedHooks(wizard.report) # <<>>
  /\ (wizard.read /\ RecommendedHooks(wizard.report) = <<>>)
       => /\ wizard.pc \in {"nohooks", "done", "threw"}
          /\ wizard.options = <<>>
          /\ wizard.answer = <<>>
          /\ WizardDone => wizard.result = <<wizard.cfg>>
  /\ wizard.answer = <<SkipOption>> => (WizardDone /\ wizard.result = <<wizard.cfg>>)
  /\ wizard.result # <<>> <=> WizardDone

\* the user picked only skip on a configuration that has internal hook
\* settings, and got that configuration back
C23_Witness ==
  /\ WizardDone
  /\ wizard.answer = <<SkipOption>>
  /\ InternalEntries(wizard.cfg) # EmptyObject
  /\ wizard.result = <<wizard.cfg>>

\* C24: when the user selects one or more hooks, the returned configuration
\* has hooks.internal.enabled = true and an entry {enabled: true} for each
\* selected hook; the internal entries that existed are still there, those of
\* hooks not selected with their value; every top-level hooks field other
\* than internal and every non-hooks field is as it was.
Without(object, field) == [k \in (DOMAIN object) \ {field} |-> object[k]]

HooksOf(cfg) == IF "hooks" \in DOMAIN cfg THEN cfg.hooks ELSE EmptyObject

SelectedNames == {wizard.answer[i] : i \in 1..Len(wizard.answer)} \ {SkipOption}

C24_SelectionEnablesAndPreserves ==
  (WizardDone /\ SelectedNames # {})
    => /\ Len(wizard.result) = 1
       /\ LET next == wizard.result[1]
              cfg == wizard.cfg
          IN /\ "hooks" \in DOMAIN next
             /\ "internal" \in DOMAIN next.hooks
             /\ next.hooks.internal.enabled = TRUE
             /\ \A name \in SelectedNames :
                  /\ name \in DOMAIN next.hooks.internal.entries
                  /\ next.hooks.internal.entries[name] = [enabled |-> TRUE]
             /\ \A name \in DOMAIN InternalEntries(cfg) :
                  /\ name \in DOMAIN next.hooks.internal.entries
                  /\ name \notin SelectedNames
                       => next.hooks.internal.entries[name] = InternalEntries(cfg)[name]
             /\ Without(next.hooks, "internal") = Without(HooksOf(cfg), "internal")
             /\ Without(next, "hooks") = Without(cfg, "hooks")

\* a hook was selected on a configuration that had another hook's entry,
\* top-level hooks fields and non-hooks settings
C24_Witness ==
  /\ WizardDone
  /\ SelectedNames # {}
  /\ "command-logger" \in DOMAIN InternalEntries(wizard.cfg)
  /\ "token" \in DOMAIN HooksOf(wizard.cfg)
  /\ "agents" \in DOMAIN wizard.cfg
  /\ wizard.result[1].hooks.internal.entries[RecommendedName] = [enabled |-> TRUE]


\* C25: loadInternalHooks returns 0 and registers no handler when internal
\* hooks are not enabled; otherwise it returns the number of hooks and legacy
\* handlers that loaded, each of them registered, and a hook that is
\* disabled in config, fails to import, exports no function or declares no
\* events is neither registered nor counted, whatever comes before or after
\* it.
LoaderDone == loader.pc = "done"

LoadableHooks ==
  IF loader.discovery = "throws" THEN {}
  ELSE {i \in 1..Len(loader.entries) :
          /\ loader.entries[i].included
          /\ ~loader.entries[i].disabled
          /\ loader.entries[i].import = "function"
          /\ loader.entries[i].events # <<>>}

LoadableLegacy ==
  {i \in 1..Len(loader.handlers) : loader.handlers[i].import = "function"}

Registered == {loader.registered[i] : i \in 1..Len(loader.registered)}

C25_LoaderCountsLoaded ==
  LoaderDone
    => IF ~loader.enabled
       THEN loader.result = <<0>> /\ loader.registered = <<>>
       ELSE /\ loader.result = <<Cardinality(LoadableHooks) + Cardinality(LoadableLegacy)>>
            /\ Registered =
                 {<<loader.entries[i].events[e], <<"hook", i>>>> :
                    <<i, e>> \in {<<i, e>> \in (1..Len(loader.entries)) \X (1..2) :
                                    i \in LoadableHooks /\ e <= Len(loader.entries[i].events)}}
                 \cup {<<loader.handlers[i].event, <<"legacy", i>>>> : i \in LoadableLegacy}

\* a hook whose import fails came first, a hook with two events and a legacy
\* handler after it loaded, and 2 was returned
C25_Witness ==
  /\ LoaderDone
  /\ loader.enabled
  /\ loader.discovery = "ok"
  /\ Len(loader.entries) = 2
  /\ loader.entries[1].included /\ loader.entries[1].import = "throws"
  /\ 2 \in LoadableHooks
  /\ Len(loader.entries[2].events) = 2
  /\ LoadableLegacy = {1}
  /\ loader.result = <<2>>
  /\ Len(loader.registered) = 3


\* C26: after a delivery failure with backlog remaining the drain re-enters
\* at once, and against a transport that always fails it attempts deliveries
\* for ever: from a failure that leaves a backlog on, a transport call is in
\* flight again and again.
FailedWithBacklog(k) ==
  /\ Present(k) /\ Q(k).items # <<>>
  /\ \E i \in 1..Len(calls[k]) : calls[k][i].status = "fail"

AttemptInFlight(k) == \E t \in 1..MaxDrains : Live(k, t) /\ Task(k, t).pc = "send"

C26_AttemptsUnbounded ==
  \A k \in Keys : [](FailedWithBacklog(k) => []<>AttemptInFlight(k))


\* C27: the debounce wait of a drain ends as soon as the queue's debounceMs
\* have elapsed since the latest enqueue: no drain waits on a timer for a
\* queue whose debounce is 0, and whenever a wait ends, after however many
\* wake-ups and enqueues, exactly debounceMs have passed since the queue's
\* last enqueue.
Waiting(k, t) == Live(k, t) /\ Task(k, t).pc = "timer"

\* the step ends the wait of drain t of key k: the drain was waiting on its
\* timer and is no longer, the re-armed timer of the same session apart
WaitEnded(k, t) ==
  /\ Waiting(k, t)
  /\ ~(/\ tasks'[k][t] # <<>>
       /\ tasks'[k][t][1].pc = "timer"
       /\ tasks'[k][t][1].sid = Task(k, t).sid)

C27_WaitEndsWhenQuiet ==
  [][\A k \in Keys, t \in 1..MaxDrains :
       /\ Waiting(k, t) => QueueOf(World, k, t).debounceMs > 0
       /\ WaitEnded(k, t)
            => now - QueueOf(World, k, t).lastEnqueuedAt
                 = QueueOf(World, k, t).debounceMs]_vars


\* the drain step ran the cross-destination check on the pending items of k:
\* an iteration in collect mode with the switch not tripped
CrossChecked(k, t) == Iterated(k, t) /\ ~Task(k, t).force /\ Q(k).mode = "collect"

\* the check answered true: the iteration tripped the switch and delivered
\* the oldest item alone
SwitchTripped(k, t) ==
  /\ SameSession(k, t) /\ (Task(k, t).force)'
  /\ IndividualDelivery(k, Q(k).items)

\* C28 as claimed: the check is true exactly when the pending items span
\* more than one (channel, recipient) pair, or items lacking channel and
\* recipient are mixed with items that have them.
LacksChannelAndTo(item) == item.originatingChannel = "" /\ item.originatingTo = ""

SpansPairsOrMixes(items) ==
  LET idx == 1..Len(items)
      pairs == {<<items[i].originatingChannel, items[i].originatingTo>> :
                  i \in {j \in idx : ~LacksChannelAndTo(items[j])}}
  IN \/ Cardinality(pairs) > 1
     \/ pairs # {} /\ \E i \in idx : LacksChannelAndTo(items[i])

C28_CrossIffPairsDiffer ==
  [][\A k \in Keys, t \in 1..MaxDrains :
       CrossChecked(k, t) => (SwitchTripped(k, t) <=> SpansPairsOrMixes(Q(k).items))]_vars


\* the step made the combined delivery of collect mode for k
CombinedStep(k, t) ==
  /\ CrossChecked(k, t)
  /\ CallStarted(k)
  /\ Message(NewCall(k))[1].tag = "marker"

\* C29: in collect mode with the switch not tripped, the combined delivery
\* holds the marker, then the overflow notice for the pending dropped-count
\* and summaries whenever dropped-count > 0, then one block per pending item
\* in order; the same step sets dropped-count to 0, empties the summary list
\* and the sequence, and the call carries the destination metadata of the
\* newest item of the batch.
C29_CollectCarriesNotice ==
  [][\A k \in Keys, t \in 1..MaxDrains :
       CombinedStep(k, t) =>
         LET queue == Q(k)
             message == Message(NewCall(k))
             notice == IF queue.droppedCount > 0 THEN 1 ELSE 0
             last == queue.items[Len(queue.items)]
         IN /\ queue.items # <<>>
            /\ Len(message) = 1 + notice + Len(queue.items)
            /\ notice = 1 =>
                 message[2] = [tag |-> "overflow", n |-> queue.droppedCount,
                               lines |-> queue.summaryLines, text |-> <<>>]
            /\ \A i \in 1..Len(queue.items) :
                 message[1 + notice + i] =
                   [tag |-> "queued", n |-> i, lines |-> <<>>,
                    text |-> TrimEnd(queue.items[i].prompt)]
            /\ (Present(k))'
            /\ (Q(k).droppedCount)' = 0
            /\ (Q(k).summaryLines)' = <<>>
            /\ (Q(k).items)' = <<>>
            /\ DestKey(NewCall(k).item) = DestKey(last)
            /\ NewCall(k).item.sessionKey = last.sessionKey]_vars


\* the overflow notices of the transport call the step started for k
NewNotices(k) == SelectSeq(Message(NewCall(k)), LAMBDA b : b.tag = "overflow")

\* the summary line of the n-th announce
SummaryOfAnnounce(n) ==
  BuildQueueSummaryLine([prompt |-> PromptOf(n), summaryLine |-> SummaryLineOf(n)])

\* the lines are those of announces made so far, in the order they were made
OldestFirst(lines) ==
  \E f \in [1..Len(lines) -> 1..nCalls] :
    /\ \A i \in 1..Len(lines) : lines[i] = SummaryOfAnnounce(f[i])
    /\ \A i, j \in 1..Len(lines) : i < j => f[i] < f[j]

\* the step starts a transport call for k that carries an overflow notice
NoticeBuilt(k) == CallStarted(k) /\ NewNotices(k) # <<>>

\* the notice of the step reports the dropped-count and the summary lines
\* the queue held, oldest first, and the step sets dropped-count to 0 and
\* empties the summary list; a notice is built only for a positive count
NoticeReportsAndResets(k) ==
  NoticeBuilt(k)
    => /\ Len(NewNotices(k)) = 1
       /\ Q(k).droppedCount > 0
       /\ NewNotices(k)[1].n = Q(k).droppedCount
       /\ NewNotices(k)[1].lines = Q(k).summaryLines
       /\ OldestFirst(NewNotices(k)[1].lines)
       /\ (Q(k).droppedCount)' = 0
       /\ (Q(k).summaryLines)' = <<>>

\* C30 as claimed: a notice handed to the transport reports the
\* dropped-count and the summary lines the queue held, oldest first, and the
\* step that builds it sets dropped-count to 0 and empties the summary list;
\* no notice goes out when dropped-count is 0; and between notices
\* dropped-count grows by exactly the items each enqueue evicts, whatever
\* the drop policy, so that n is the number of items evicted since the
\* previous notice.
C30_NoticeCountsEveryEviction ==
  [][\A k \in Keys :
       /\ NoticeReportsAndResets(k)
       /\ (Present(k) /\ (Present(k))' /\ ~NoticeBuilt(k))
            => (Q(k).droppedCount)' =
                 Q(k).droppedCount + Cardinality(hist'[k].evicted \ hist[k].evicted)]_vars

\* C30 as the code has it: the notice reports and resets as claimed, and
\* between notices dropped-count grows by exactly the items each enqueue
\* evicts under the summarize policy and changes in no other way, so that n
\* is the number of items evicted under that policy since the previous
\* notice; items evicted under the policy old are not counted.
C30_NoticeReportsEvictions ==
  [][\A k \in Keys :
       /\ NoticeReportsAndResets(k)
       /\ (Present(k) /\ (Present(k))' /\ ~NoticeBuilt(k))
            => (Q(k).droppedCount)' =
                 Q(k).droppedCount
                   + (IF (Q(k).dropPolicy)' = "summarize"
                      THEN Cardinality(hist'[k].evicted \ hist[k].evicted)
                      ELSE 0)]_vars

\* a notice in flight that reports the two announces evicted before it, in
\* the order they were made, with the drop debt of the queue cleared
C30_Witness ==
  /\ Present("k1") /\ calls["k1"] # <<>>
  /\ LastCall("k1").status = "pending"
  /\ Message(LastCall("k1")) =
       <<[tag |-> "overflow", n |-> 2,
          lines |-> <<SummaryOfAnnounce(1), SummaryOfAnnounce(2)>>, text |-> <<>>]>>
  /\ Q("k1").droppedCount = 0
  /\ Q("k1").summaryLines = <<>>
  /\ hist["k1"].evicted = {PromptOf(1), PromptOf(2)}


\* C31 as claimed: in every reachable state the summary list of a queue
\* holds at most capacity entries.
C31_SummariesWithinCap ==
  \A k \in Keys : Present(k) => Len(Q(k).summaryLines) <= Q(k).cap

\* C31 as the code has it: an enqueue that evicts under the summarize policy
\* leaves at most capacity summaries, the newest ones (capacity being the one
\* its settings left in force), and adds every evicted item to dropped-count;
\* and a list within the capacity stays within it in every step that does
\* not lower the capacity.
C31_SummariesTrimmedOnEviction ==
  [][\A k \in Keys :
       /\ (/\ EnqueuedOn(k)
           /\ (Q(k).dropPolicy)' = "summarize"
           /\ Len(Q(k).items) >= (Q(k).cap)')
            => LET drop == Len(Q(k).items) - (Q(k).cap)' + 1
                   all == Q(k).summaryLines
                            \o [i \in 1..drop |-> BuildQueueSummaryLine(Q(k).items[i])]
               IN /\ Len((Q(k).summaryLines)') <= (Q(k).cap)'
                  /\ (Q(k).summaryLines)'
                       = SubSeq(all, Len(all) - Len((Q(k).summaryLines)') + 1, Len(all))
                  /\ Len((Q(k).summaryLines)') = Len(all) \/ Len((Q(k).summaryLines)') = (Q(k).cap)'
                  /\ (Q(k).droppedCount)' = Q(k).droppedCount + drop
       /\ (/\ Present(k) /\ (Present(k))'
           /\ Len(Q(k).summaryLines) <= Q(k).cap
           /\ (Q(k).cap)' >= Q(k).cap)
            => Len((Q(k).summaryLines)') <= (Q(k).cap)']_vars

\* an enqueue lowered the capacity from 2 to 1 and evicted two items: of the
\* three summaries only the newest is kept, and dropped-count is 3
C31_Witness ==
  /\ Present("k1") /\ nCalls = 4
  /\ Q("k1").cap = 1 /\ Q("k1").dropPolicy = "summarize"
  /\ Q("k1").droppedCount = 3
  /\ Q("k1").summaryLines = <<SummaryOfAnnounce(3)>>
  /\ hist["k1"].evicted = {PromptOf(1), PromptOf(2), PromptOf(3)}


\* C32: an enqueue rejected under reject-new sets lastEnqueuedAt to the
\* current time and stores the mode, debounce, capacity and drop policy its
\* settings supply (a value not supplied, or a capacity <= 0, keeps the
\* stored one), and leaves the sequence, dropped-count and the summary list
\* as they were; and after a rejected enqueue no transport call starts
\* before the stored debounce has passed since that enqueue.
C32_RejectedEnqueueStampsAndMerges ==
  [][\A k \in Keys :
       /\ (EnqueuedOn(k) /\ ~ret'.accepted)
            => /\ (Q(k).dropPolicy)' = "new"
               /\ (Q(k).lastEnqueuedAt)' = now
               /\ (Q(k).mode)' = event'.mode
               /\ (Q(k).debounceMs)' =
                    (IF event'.debounceMs = <<>> THEN Q(k).debounceMs
                     ELSE Max(0, event'.debounceMs[1]))
               /\ (Q(k).cap)' =
                    (IF event'.cap # <<>> /\ event'.cap[1] > 0 THEN event'.cap[1]
                     ELSE Q(k).cap)
               /\ (Q(k).dropPolicy)' =
                    (IF event'.dropPolicy = <<>> THEN Q(k).dropPolicy
                     ELSE event'.dropPolicy[1])
               /\ (Q(k).items)' = Q(k).items
               /\ (Q(k).droppedCount)' = Q(k).droppedCount
               /\ (Q(k).summaryLines)' = Q(k).summaryLines
       /\ (CallStarted(k) /\ ret.key = k /\ ~ret.accepted)
            => now - Q(k).lastEnqueuedAt >= Q(k).debounceMs]_vars


\* C33: in every state between operations, a key present in the store has
\* draining = true and a live drain task that works on the stored queue: no
\* stored queue, whatever it holds, is without a live drain.
C33_PresentKeysAreDraining ==
  \A k \in Keys :
    Present(k) =>
      /\ Q(k).draining
      /\ \E t \in LiveTasks(k) : Task(k, t).obj = store[k]

\* a queue holding a pending item while an earlier call is still in flight,
\* its drain live and its draining flag set
C33_Witness ==
  \E k \in Keys :
    /\ Present(k) /\ Q(k).draining
    /\ Q(k).items # <<>>
    /\ \E t \in LiveTasks(k) : Task(k, t).obj = store[k] /\ Task(k, t).pc = "send"
    /\ flows # <<>>


\* C34: every step in which a drain starts a transport call for a key
\* removes at least one item from the key's sequence, and in every state the
\* transport calls made for a key are at most as many as the enqueues
\* accepted for it.
C34_CallsConsumeItems ==
  /\ [][\A k \in Keys :
          CallStarted(k) => /\ Present(k) /\ (Present(k))'
                            /\ Len((Q(k).items)') < Len(Q(k).items)]_vars
  /\ [](\A k \in Keys : Len(calls[k]) <= Cardinality(hist[k].accepted))

\* two calls were made for a key that accepted four announces, two of which
\* were evicted
C34_Witness ==
  /\ Len(calls["k1"]) = 2
  /\ Cardinality(hist["k1"].accepted) = 4
  /\ Cardinality(hist["k1"].evicted) = 2
  /\ ~Present("k1")

\* the step on which the i-th invocation of the flow returns
FlowEnded(i) ==
  /\ i \in 1..Len(flows') /\ flows'[i].result # "pending"
  /\ i > Len(flows) \/ flows[i].result = "pending"

\* C35: an invocation of the flow returns true exactly when its announce
\* was steered, was taken into the queue, or was delivered by a direct call
\* that succeeded; whatever the outcome, before returning it has made the
\* label patch call when a label is given and the deletion call when cleanup
\* is delete, with both answered, and a failure of either leaves the returned
\* value as it was.
C35_TrueIffAnnouncedThenFollowUps ==
  [][\A i \in 1..MaxFlows :
       FlowEnded(i) =>
         /\ flows'[i].result \in {"true", "false"}
         /\ flows'[i].result = "true"
              <=> \/ flows'[i].queued = "steered"
                  \/ /\ flows'[i].queued = "queued"
                     /\ PromptOf(flows'[i].announce) \in hist'[flows'[i].key].accepted
                  \/ flows'[i].direct = "ok"
         /\ flows'[i].patch \in {"ok", "fail"} <=> flows'[i].label # <<>>
         /\ flows'[i].patch = "none" <=> flows'[i].label = <<>>
         /\ flows'[i].delete \in {"ok", "fail"} <=> flows'[i].cleanup = "delete"
         /\ flows'[i].delete = "none" <=> flows'[i].cleanup # "delete"]_vars

\* the hooks loadHooksFromDir finds in each source, lowest precedence first
SourceNames == <<"extra", "bundled", "managed", "workspace">>

FoundIn(dirs, src) == LoadHooksFromDir(dirs[src], src, src)

NamesIn(dirs, src) == {FoundIn(dirs, src)[i].name : i \in 1..Len(FoundIn(dirs, src))}

\* the position in SourceNames of the highest source that has the name
Winner(dirs, name) ==
  CHOOSE p \in 1..4 :
    /\ name \in NamesIn(dirs, SourceNames[p])
    /\ \A q \in (p + 1)..4 : name \notin NamesIn(dirs, SourceNames[q])

\* C36: the result of loadHookEntries has exactly one hook for every name
\* found in some source and no other hook, and the hook of a name comes from the
\* highest source that has the name, in the order extra, bundled, managed,
\* workspace.
C36_OneHookPerNameHighestSourceWins ==
  hookEntries.pc = "done" =>
    LET dirs == hookEntries.dirs
        result == hookEntries.result
        names == UNION {NamesIn(dirs, SourceNames[p]) : p \in 1..4}
    IN /\ \A i \in 1..Len(result) : result[i].hook.name \in names
       /\ \A name \in names :
            /\ Cardinality({i \in 1..Len(result) : result[i].hook.name = name}) = 1
            /\ \A i \in 1..Len(result) :
                 result[i].hook.name = name =>
                   /\ result[i].hook.baseDir[1] = SourceNames[Winner(dirs, name)]
                   /\ \E j \in 1..Len(FoundIn(dirs, result[i].hook.baseDir[1])) :
                        FoundIn(dirs, result[i].hook.baseDir[1])[j].baseDir
                          = result[i].hook.baseDir

\* every source has a hook named alpha, the one of the workspace in a
\* subdirectory beta whose frontmatter names it alpha: the result is that hook
C36_Witness ==
  /\ hookEntries.pc = "done"
  /\ \A p \in 1..4 : NamesIn(hookEntries.dirs, SourceNames[p]) = {"alpha"}
  /\ hookEntries.dirs.extra[1].dir = "alpha"
  /\ Len(hookEntries.result) = 1
  /\ hookEntries.result[1].hook.name = "alpha"
  /\ hookEntries.result[1].hook.baseDir = <<"workspace", "beta">>
\* the step started a command of the hooks cli; the step did the write of
\* the n-th command
CommandStarted == hooksCli.pc = "ready" /\ hooksCli'.runs = hooksCli.runs + 1

CommandWrote(n) ==
  /\ hooksCli.pc = "ready" /\ n \in 1..Len(hooksCli.cmds)
  /\ hooksCli.cmds[n].outcome = "writing" /\ hooksCli'.cmds[n].outcome = "ok"

\* object b is object a but for the fields named
SameBut(a, b, fields) ==
  /\ (DOMAIN a) \cup fields = (DOMAIN b) \cup fields
  /\ \A k \in (DOMAIN a) \ fields : b[k] = a[k]

\* C37: enableHook throws and writes nothing for a hook that the status
\* report on the configuration it loaded does not have or reports as not
\* eligible; otherwise it writes that configuration with entries[name].enabled
\* and hooks.internal.enabled true.  disableHook throws and writes nothing
\* only for a hook the report does not have; otherwise it writes the
\* configuration it loaded with entries[name].enabled false and with
\* hooks.internal.enabled, the other entries and the rest of the
\* configuration as they were.  The file changes only by such a write, and
\* becomes what the command wrote.
C37_EnableDisableWriteOnlyTheirEntry ==
  [][/\ CommandStarted =>
          LET cmd == hooksCli'.cmds[Len(hooksCli'.cmds)]
              name == cmd.hookName
              before == cmd.config
              hook == FindHook(BuildWorkspaceHookStatus(hooksCli.entries, before), name)
          IN /\ before = hooksCli.config
             /\ hooksCli'.config = hooksCli.config
             /\ cmd.command = "enable" =>
                  IF hook = <<>> \/ ~hook[1].eligible
                  THEN cmd.outcome \in {"not found", "not eligible"}
                         /\ cmd.nextConfig = <<>>
                  ELSE /\ cmd.outcome = "writing" /\ Len(cmd.nextConfig) = 1
                       /\ cmd.nextConfig[1].hooks.internal.entries[name].enabled = TRUE
                       /\ cmd.nextConfig[1].hooks.internal.enabled = TRUE
             /\ cmd.command = "disable" =>
                  IF hook = <<>>
                  THEN cmd.outcome = "not found" /\ cmd.nextConfig = <<>>
                  ELSE /\ cmd.outcome = "writing" /\ Len(cmd.nextConfig) = 1
                       /\ LET after == cmd.nextConfig[1]
                          IN /\ after.hooks.internal.entries[name].enabled = FALSE
                             /\ SameBut(InternalEntries(before), InternalEntries(after),
                                        {name})
                             /\ SameBut(InternalObject(before), InternalObject(after),
                                        {"entries"})
                             /\ SameBut(HooksObject(before), HooksObject(after),
                                        {"internal"})
                             /\ SameBut(before, after, {"hooks"})
     /\ (hooksCli.pc = "ready" /\ hooksCli'.config # hooksCli.config)
          => \E n \in 1..MaxCommands : CommandWrote(n)
     /\ \A n \in 1..MaxCommands :
          /\ CommandWrote(n) =>
               /\ hooksCli'.config = hooksCli.cmds[n].nextConfig[1]
               /\ hooksCli'.cmds[n] = [hooksCli.cmds[n] EXCEPT !.outcome = "ok"]
          /\ (hooksCli.pc = "ready" /\ n \in 1..Len(hooksCli.cmds)
                /\ hooksCli.cmds[n].outcome \in {"not found", "not eligible", "ok"})
               => hooksCli'.cmds[n] = hooksCli.cmds[n]]_vars

\* beta, enabled in a configuration that has the internal hooks off, was
\* disabled: its entry kept its env, hooks.internal.enabled is still false
\* and the other settings are there; enabling it again was refused
C37_Witness ==
  /\ hooksCli.pc = "ready" /\ Len(hooksCli.cmds) = 2
  /\ hooksCli.cmds[1].command = "disable" /\ hooksCli.cmds[1].hookName = "beta"
  /\ hooksCli.cmds[1].outcome = "ok"
  /\ hooksCli.cmds[2].command = "enable" /\ hooksCli.cmds[2].hookName = "beta"
  /\ hooksCli.cmds[2].outcome = "not eligible"
  /\ hooksCli.config = hooksCli.cmds[1].nextConfig[1]
  /\ "logging" \in DOMAIN hooksCli.config
  /\ hooksCli.config.hooks.token = "secret"
  /\ hooksCli.config.hooks.internal.enabled = FALSE
  /\ hooksCli.config.hooks.internal.entries.beta = [enabled |-> FALSE, env |-> [KEY |-> "v"]]
  /\ hooksCli.config.hooks.internal.entries.alpha = [enabled |-> FALSE]

\* the n-th command succeeded; the status the report built on the
\* configuration it wrote gives for the hook it named
CommandDone(n, command) ==
  /\ hooksCli.pc = "ready" /\ n \in 1..Len(hooksCli.cmds)
  /\ hooksCli.cmds[n].command = command /\ hooksCli.cmds[n].outcome = "ok"

StatusOf(n) ==
  FindHook(BuildWorkspaceHookStatus(hooksCli.entries, hooksCli.cmds[n].nextConfig[1]),
           hooksCli.cmds[n].hookName)[1]

\* C38: after a successful disableHook(name) the status report built on the
\* written configuration gives the hook named name as disabled and not
\* eligible, and a run of loadInternalHooks on that configuration registers no
\* handler of it; after a successful enableHook(name) the report gives it as
\* not disabled.  The hook may have a hookKey other than its name.
C38_DisableEnableRoundTrip ==
  \A n \in 1..MaxCommands :
    /\ CommandDone(n, "disable") =>
         /\ StatusOf(n).disabled /\ ~StatusOf(n).eligible
         /\ (LoaderDone /\ hooksCli.loaded = hooksCli.cmds[n].nextConfig) =>
              \A i \in 1..Len(hooksCli.entries) :
                hooksCli.entries[i].name = hooksCli.cmds[n].hookName
                  => \A r \in Registered : r[2] # <<"hook", i>>
    /\ CommandDone(n, "enable") => ~StatusOf(n).disabled
\* C39: in every reachable state, every queue has at most dropped-count
\* retained summary lines, and none when dropped-count is zero.
C39_SummaryLinesWithinDroppedCount ==
  \A k \in Keys, o \in 1..MaxObjects :
    heap[k][o] # <<>> =>
      /\ Len(heap[k][o][1].summaryLines) <= heap[k][o][1].droppedCount
      /\ heap[k][o][1].droppedCount = 0 => heap[k][o][1].summaryLines = <<>>

\* the drain sent the overflow notice: dropped-count is back at zero and the
\* summary list is empty, after two evictions of which one line was retained
C39_Witness ==
  /\ Present("k1") /\ Q("k1").dropPolicy = "summarize"
  /\ Q("k1").droppedCount = 0 /\ Q("k1").summaryLines = <<>>
  /\ Cardinality(hist["k1"].evicted) = 2
  /\ calls["k1"] # <<>>
  /\ \E i \in 1..Len(Message(LastCall("k1"))) :
       /\ Message(LastCall("k1"))[i].tag = "overflow"
       /\ Message(LastCall("k1"))[i].n = 2
       /\ Len(Message(LastCall("k1"))[i].lines) = 1
====
